---- MODULE Spec2Model ----
(***************************************************************************)
(* Content migration / reconciliation scripts of AhmadKarmiDotCom.         *)
(*                                                                         *)
(* The repository is a set of independent scripts, so the module holds one *)
(* group of variables per script (or per pure function) and one            *)
(* specification per group; a specification keeps the other groups idle.   *)
(*                                                                         *)
(*   SpecStrip   stripWpDuplicateSuffix, strict and lax variants           *)
(*   SpecDedupe  pickPreferredBySlug / dedupeBySlug / fetchWorks           *)
(*   SpecRetry   retry() of the CSV migration utilities                    *)
(*   SpecCsv     CSV -> Strapi migration CLI (index.ts, works, insights)   *)
(*   SpecSync    sync_wp_insights_from_csv.mjs                             *)
(*   SpecGate    confirmation gates of the script entry points             *)
(*   SpecTags    reapply-insight-tags.mjs                                  *)
(*                                                                         *)
(* Strings that the code inspects character by character (slugs) are       *)
(* sequences of one-character strings.                                     *)
(***************************************************************************)
EXTENDS Integers, Sequences, FiniteSets, TLC

VARIABLES
    \* ---- stripWpDuplicateSuffix ----
    slug,           \* the input slug
    stripPc,        \* "input" | "done"
    stripped,       \* result of the frontend client's stripWpDuplicateSuffix
    strippedSync,   \* result of sync_wp_insights_from_csv's variant
    strippedLax,    \* result of the /-\d+$/ variant of the other scripts
    \* ---- retry ----
    rMaxRetries,    \* options.maxRetries
    rDelay,         \* options.delay
    rAttempt,       \* loop variable `attempt`
    rPc,            \* "call" | "sleep" | "returned" | "threw"
    rCalls,         \* outcome of every invocation of fn so far, in order
    rSleeps,        \* argument of every sleep() so far, in order
    rResult,        \* value returned / error thrown by retry
    \* ---- dedupeBySlug / fetchWorks / fetchInsights ----
    posts,          \* the posts returned by the WordPress list endpoint
    dedupePc,       \* "input" | "works" | "insights"
    deduped,        \* return value of dedupeBySlug
    fetched,        \* return value of fetchWorks / fetchInsights
    \* ---- reapply-insight-tags.mjs ----
    tYes,           \* isYes: --yes was passed
    tWpInsights,    \* WordPress insights {id, slug} (fetchAllWpInsightsLite)
    tStrapiInsights,\* Strapi insights {slug, tags} (fetchStrapiInsightsLite)
    tWpTags,        \* names of the tags that exist in WordPress
    tPc,            \* "start" | "loop" | "done" | "failed"
    tIdx,           \* position of the loop over strapiInsights
    tByBase,        \* wpByBaseSlug
    tCounts,        \* matched, updated, skippedNoTags, missingWp
    tMatches,       \* (source slug, WordPress post id) pairs that were matched
    tWrites,        \* write requests sent to WordPress, in order
    \* ---- CSV -> Strapi migration CLI ----
    cEnv0,          \* DRY_RUN === 'true' in the environment the CLI is started in
    cArgs,          \* flags on the command line
    cCsv,           \* rows of the works CSV and of the insights CSV
    cProc,          \* process.env.DRY_RUN === 'true' and CONFIG.dryRun of this process
    cPc,            \* "load" | "main" | "works" | "insights" | "summary" | "exit"
    cI,             \* loop variable i of migrateWorks / migrateInsights
    cStrapi,        \* entries at the destination: {coll, slug}
    cResults,       \* results.works, results.insights
    cRequests,      \* requests sent by this run per kind, and requests given up
    cCreateCalls,   \* createEntry calls of this run: {coll, slug, existed}
    cExit,          \* exit code of this run (-1: still running)
    cRun,           \* number of the run
    \* ---- sync_wp_insights_from_csv.mjs ----
    sArgs,          \* isYes, isDryRun
    sRows,          \* rows of the CSV
    sWp,            \* insight posts at the destination
    sWpTags,        \* names of the tags that exist in WordPress
    sMediaLib,      \* source URLs whose file is in the WordPress media library
    sPc,            \* "gate" | "read" | "loop" | "done" | "refused" | "failed"
    sTargets,       \* targetSlugs
    sBySlug,        \* bySlug
    sIdx,           \* position of the main loop over targetSlugs
    sK,             \* position of the loop over the posts of the target slug
    sFetched,       \* wpPosts, the return value of fetchAllWpInsightsLite
    sWpByBase,      \* wpByBase
    sCounts,        \* createdCount, updatedCount, skippedCount
    sRequests,      \* number of requests sent, per kind
    sMediaCache,    \* mediaIdByRemoteUrl
    sExit,          \* exit code (-1: still running)
    \* ---- confirmation gates of the script entry points ----
    gScript,        \* the script that is started
    gArgs,          \* --yes, --dry-run on the command line, DRY_RUN in the environment
    gPc,            \* "start" | "running" | "refused" | "done"
    gWrites,        \* kinds of write requests sent so far
    gExit,          \* exit code (-1: still running)
    \* ---- pure functions (normalizers, parsers, sanitizers) ----
    pIn,            \* the argument
    pPc,            \* the function that is applied, or its "...Done"
    pOut,           \* the results
    \* ---- resolveWpAuthHeaders and the requests that follow it ----
    aScript,        \* the script that runs
    aPassword,      \* WP_APP_PASSWORD
    aAccepted,      \* the passwords /users/me answers 2xx to
    aPc,            \* "resolve" | "content" | "done" | "aborted"
    aK,             \* index of the next candidate to probe
    aCached,        \* cachedWpAuthHeaders: << >> (null) or <<password>>
    aRequests,      \* requests sent so far: [path, password]
    aExit,          \* process.exitCode (0 while unset)
    \* ---- reset-cpts.mjs: deleteAll ----
    dInitial,       \* number of posts of the type when deleteAll starts
    dPosts,         \* ids of the posts at the destination, in list order
    dPc,            \* "fetch" | "delete" | "done" | "failed"
    dPage,          \* page
    dBatch,         \* posts of the fetched page still to delete
    dTotalDeleted,  \* totalDeleted
    dFailures,      \* requests that failed so far
    \* withRequestCache of the frontend WordPress client
    qNow,           \* Date.now()
    qCache,         \* requestCache: key -> entry
    qInFlight,      \* requestInFlight: key -> the load whose promise it holds (0: none)
    qLoads,         \* the loader invocations, in order, and how their promise settled
    qCalls          \* the calls of withRequestCache, in order, and what each was handed

stripVars == <<slug, stripPc, stripped, strippedSync, strippedLax>>
retryVars == <<rMaxRetries, rDelay, rAttempt, rPc, rCalls, rSleeps, rResult>>
dedupeVars == <<posts, dedupePc, deduped, fetched>>
tagsVars == <<tYes, tWpInsights, tStrapiInsights, tWpTags, tPc, tIdx, tByBase,
              tCounts, tMatches, tWrites>>
csvVars == <<cEnv0, cArgs, cCsv, cProc, cPc, cI, cStrapi, cResults, cRequests,
             cCreateCalls, cExit, cRun>>
syncVars == <<sArgs, sRows, sWp, sWpTags, sMediaLib, sPc, sTargets, sBySlug, sIdx, sK,
              sFetched, sWpByBase, sCounts, sRequests, sMediaCache, sExit>>
gateVars == <<gScript, gArgs, gPc, gWrites, gExit>>
wpScriptVars == <<syncVars, gateVars>>
pureVars == <<pIn, pPc, pOut>>
authVars == <<aScript, aPassword, aAccepted, aPc, aK, aCached, aRequests, aExit>>
resetVars == <<dInitial, dPosts, dPc, dPage, dBatch, dTotalDeleted, dFailures>>
cacheVars == <<qNow, qCache, qInFlight, qLoads, qCalls>>
restVars == <<pureVars, authVars, resetVars, cacheVars>>
vars == <<stripVars, retryVars, dedupeVars, tagsVars, csvVars, wpScriptVars, restVars>>

\* the variables a specification leaves idle
exceptStrip == <<retryVars, dedupeVars, tagsVars, csvVars, wpScriptVars, restVars>>
exceptRetry == <<stripVars, dedupeVars, tagsVars, csvVars, wpScriptVars, restVars>>
exceptDedupe == <<stripVars, retryVars, tagsVars, csvVars, wpScriptVars, restVars>>
exceptTags == <<stripVars, retryVars, dedupeVars, csvVars, wpScriptVars, restVars>>
exceptCsv == <<stripVars, retryVars, dedupeVars, tagsVars, wpScriptVars, restVars>>
exceptSync == <<stripVars, retryVars, dedupeVars, tagsVars, csvVars, gateVars, restVars>>
exceptPure == <<stripVars, retryVars, dedupeVars, tagsVars, csvVars, wpScriptVars, authVars, resetVars, cacheVars>>
exceptAuth == <<stripVars, retryVars, dedupeVars, tagsVars, csvVars, wpScriptVars, pureVars, resetVars, cacheVars>>
exceptReset == <<stripVars, retryVars, dedupeVars, tagsVars, csvVars, wpScriptVars, pureVars, authVars, cacheVars>>
exceptCache == <<stripVars, retryVars, dedupeVars, tagsVars, csvVars, wpScriptVars, pureVars, authVars, resetVars>>
exceptGate == <<stripVars, retryVars, dedupeVars, tagsVars, csvVars, syncVars, restVars>>

----------------------------------------------------------------------------
(* Generic helpers *)

Range(s) == {s[i] : i \in DOMAIN s}

SeqsUpTo(S, n) == UNION {[1..k -> S] : k \in 0..n}

Digits == {"0", "1", "2", "3", "4", "5", "6", "7", "8", "9"}

DigitVal(c) ==
    CASE c = "0" -> 0 [] c = "1" -> 1 [] c = "2" -> 2 [] c = "3" -> 3
      [] c = "4" -> 4 [] c = "5" -> 5 [] c = "6" -> 6 [] c = "7" -> 7
      [] c = "8" -> 8 [] c = "9" -> 9

\* Number(), applied to a string of decimal digits
RECURSIVE NumberOf(_)
NumberOf(ds) ==
    IF ds = << >> THEN 0
    ELSE 10 * NumberOf(SubSeq(ds, 1, Len(ds) - 1)) + DigitVal(ds[Len(ds)])

\* String.prototype.trim
RECURSIVE Trim(_)
Trim(s) ==
    IF s = << >> THEN s
    ELSE IF s[1] = " " THEN Trim(Tail(s))
    ELSE IF s[Len(s)] = " " THEN Trim(SubSeq(s, 1, Len(s) - 1))
    ELSE s

----------------------------------------------------------------------------
(* stripWpDuplicateSuffix *)

NoMatch == [matched |-> FALSE, base |-> << >>, digits |-> << >>]

\* slug.match(/^(.*)-(\d{1,2})$/): group 1 and group 2, or no match.  The
\* character before the last digit is either the hyphen (one digit) or a
\* digit preceded by the hyphen (two digits), so the match is unique.
SuffixMatch(s) ==
    LET n == Len(s) IN
    IF n >= 2 /\ s[n] \in Digits /\ s[n - 1] = "-"
      THEN [matched |-> TRUE, base |-> SubSeq(s, 1, n - 2),
            digits |-> SubSeq(s, n, n)]
    ELSE IF n >= 3 /\ s[n] \in Digits /\ s[n - 1] \in Digits /\ s[n - 2] = "-"
      THEN [matched |-> TRUE, base |-> SubSeq(s, 1, n - 3),
            digits |-> SubSeq(s, n - 1, n)]
    ELSE NoMatch

\* the range test of stripWpDuplicateSuffix without its lower bound
StripNoLowerBound(s) ==
    LET m == SuffixMatch(s) IN
    IF ~m.matched THEN s
    ELSE IF NumberOf(m.digits) > 99 THEN s
    ELSE m.base

\* frontend WordPress client
stripWpDuplicateSuffix(s) ==
    LET m == SuffixMatch(s) IN
    IF ~m.matched THEN s
    ELSE LET n == NumberOf(m.digits) IN
         IF n < 2 \/ n > 99 THEN s ELSE m.base

\* sync_wp_insights_from_csv.mjs: String(slug || '').trim() first
stripWpDuplicateSuffixSync(s) ==
    LET value == Trim(s)
        m == SuffixMatch(value) IN
    IF ~m.matched THEN value
    ELSE LET n == NumberOf(m.digits) IN
         IF n < 2 \/ n > 99 THEN value ELSE m.base

\* reapply-insight-tags.mjs and the other scripts:
\* String(slug || '').replace(/-\d+$/, '')
RECURSIVE TrailingDigits(_)
TrailingDigits(s) ==
    IF s = << >> \/ s[Len(s)] \notin Digits THEN 0
    ELSE 1 + TrailingDigits(SubSeq(s, 1, Len(s) - 1))

stripWpDuplicateSuffixLax(s) ==
    LET k == TrailingDigits(s)
        n == Len(s) IN
    IF k >= 1 /\ n - k >= 1 /\ s[n - k] = "-"
      THEN SubSeq(s, 1, n - k - 1)
      ELSE s

\* Bounds of the slug inputs
MaxSlugLen == 5
SlugChars == {"a", "-", "0", "1", "2", "9"}
SlugInputs == SeqsUpTo(SlugChars, MaxSlugLen)

StripIdle ==
    /\ slug = << >>
    /\ stripPc = "idle"
    /\ stripped = << >>
    /\ strippedSync = << >>
    /\ strippedLax = << >>

RetryIdle ==
    /\ rMaxRetries = 0
    /\ rDelay = 0
    /\ rAttempt = 0
    /\ rPc = "idle"
    /\ rCalls = << >>
    /\ rSleeps = << >>
    /\ rResult = [kind |-> "none"]

DedupeIdle ==
    /\ posts = << >>
    /\ dedupePc = "idle"
    /\ deduped = << >>
    /\ fetched = << >>

TagsIdle ==
    /\ tYes = FALSE
    /\ tWpInsights = << >>
    /\ tStrapiInsights = << >>
    /\ tWpTags = {}
    /\ tPc = "idle"
    /\ tIdx = 0
    /\ tByBase = << >>
    /\ tCounts = [matched |-> 0, updated |-> 0, skippedNoTags |-> 0, missingWp |-> 0]
    /\ tMatches = {}
    /\ tWrites = << >>

NoResults == [works |-> [success |-> 0, failed |-> 0],
              insights |-> [success |-> 0, failed |-> 0]]

NoRequests ==
    [download |-> 0, upload |-> 0, create |-> 0, publish |-> 0,
     downloadGaveUp |-> 0, uploadGaveUp |-> 0, rowThrew |-> 0]

CsvIdle ==
    /\ cEnv0 = FALSE
    /\ cArgs = [dryRun |-> FALSE, worksOnly |-> FALSE, insightsOnly |-> FALSE]
    /\ cCsv = [works |-> << >>, insights |-> << >>]
    /\ cProc = [envDryRun |-> FALSE, configDryRun |-> FALSE]
    /\ cPc = "idle"
    /\ cI = 0
    /\ cStrapi = {}
    /\ cResults = NoResults
    /\ cRequests = NoRequests
    /\ cCreateCalls = {}
    /\ cExit = -1
    /\ cRun = 0

NoSyncCounts == [created |-> 0, updated |-> 0, skipped |-> 0]

NoSyncRequests == [tag |-> 0, download |-> 0, upload |-> 0, create |-> 0, update |-> 0]

SyncIdle ==
    /\ sArgs = [yes |-> FALSE, dryRun |-> FALSE]
    /\ sRows = << >>
    /\ sWp = << >>
    /\ sWpTags = {}
    /\ sMediaLib = {}
    /\ sPc = "idle"
    /\ sTargets = << >>
    /\ sBySlug = << >>
    /\ sIdx = 0
    /\ sK = 0
    /\ sFetched = << >>
    /\ sWpByBase = << >>
    /\ sCounts = NoSyncCounts
    /\ sRequests = NoSyncRequests
    /\ sMediaCache = << >>
    /\ sExit = -1

GateIdle ==
    /\ gScript = "none"
    /\ gArgs = [yes |-> FALSE, dryRun |-> FALSE, envDryRun |-> FALSE]
    /\ gPc = "idle"
    /\ gWrites = {}
    /\ gExit = -1

WpScriptsIdle == SyncIdle /\ GateIdle

PureIdle ==
    /\ pIn = << >>
    /\ pPc = "idle"
    /\ pOut = << >>

AuthIdle ==
    /\ aScript = "none"
    /\ aPassword = << >>
    /\ aAccepted = {}
    /\ aPc = "idle"
    /\ aK = 0
    /\ aCached = << >>
    /\ aRequests = << >>
    /\ aExit = 0

ResetIdle ==
    /\ dInitial = 0
    /\ dPosts = << >>
    /\ dPc = "idle"
    /\ dPage = 0
    /\ dBatch = << >>
    /\ dTotalDeleted = 0
    /\ dFailures = 0

CacheIdle ==
    /\ qNow = 0
    /\ qCache = << >>
    /\ qInFlight = << >>
    /\ qLoads = << >>
    /\ qCalls = << >>

RestIdle == PureIdle /\ AuthIdle /\ ResetIdle /\ CacheIdle

StripInit ==
    /\ slug \in SlugInputs
    /\ stripPc = "input"
    /\ stripped = << >>
    /\ strippedSync = << >>
    /\ strippedLax = << >>
    /\ RetryIdle
    /\ DedupeIdle
    /\ TagsIdle
    /\ CsvIdle
    /\ WpScriptsIdle
    /\ RestIdle

\* one call of each variant on the input slug
ApplyStrip ==
    /\ stripPc = "input"
    /\ stripPc' = "done"
    /\ stripped' = stripWpDuplicateSuffix(slug)
    /\ strippedSync' = stripWpDuplicateSuffixSync(slug)
    /\ strippedLax' = stripWpDuplicateSuffixLax(slug)
    /\ UNCHANGED <<slug, exceptStrip>>

StripNext == ApplyStrip

SpecStrip == StripInit /\ [][StripNext]_vars

----------------------------------------------------------------------------
(* Claims on stripWpDuplicateSuffix *)

\* the canonical decimal numeral of n (no leading zero)
DigitChar(d) ==
    CASE d = 0 -> "0" [] d = 1 -> "1" [] d = 2 -> "2" [] d = 3 -> "3"
      [] d = 4 -> "4" [] d = 5 -> "5" [] d = 6 -> "6" [] d = 7 -> "7"
      [] d = 8 -> "8" [] d = 9 -> "9"

RECURSIVE Numeral(_)
Numeral(n) ==
    IF n < 10 THEN <<DigitChar(n)>>
    ELSE Append(Numeral(n \div 10), DigitChar(n % 10))

IsNumeral(ds) == ds # << >> /\ Range(ds) \subseteq Digits /\ Numeral(NumberOf(ds)) = ds

\* s = b "-" N for a base b and a canonical numeral N (k digits long)
NumericSuffixLen(s, k) ==
    /\ Len(s) >= k + 1
    /\ s[Len(s) - k] = "-"
    /\ IsNumeral(SubSeq(s, Len(s) - k + 1, Len(s)))

HasNumericSuffix(s) == \E k \in 1..Len(s) : NumericSuffixLen(s, k)

SuffixNumber(s) ==
    LET k == CHOOSE k \in 1..Len(s) : NumericSuffixLen(s, k)
    IN [n |-> NumberOf(SubSeq(s, Len(s) - k + 1, Len(s))),
        base |-> SubSeq(s, 1, Len(s) - k - 1)]

\* what C7 expects of a slug: the '-N' removed exactly when 2 <= N <= 99
ExpectedStrip(s) ==
    IF HasNumericSuffix(s) /\ SuffixNumber(s).n >= 2 /\ SuffixNumber(s).n <= 99
      THEN SuffixNumber(s).base
      ELSE s

\* a slug whose digits after the last hyphen are written with a leading zero
\* ("a-02", "a-002") is not of the form '-N' for an integer N
LeadingZeroSuffix(s) ==
    LET k == TrailingDigits(s) IN
    /\ k >= 2
    /\ Len(s) > k
    /\ s[Len(s) - k] = "-"
    /\ s[Len(s) - k + 1] = "0"

C24_Original_NonEmptyResult ==
    (stripPc = "done" /\ slug # << >>) =>
        /\ stripped # << >>
        /\ strippedSync # << >>

----------------------------------------------------------------------------
(* retry(fn, options) of the CSV migration utilities *)

DefaultMaxRetries == 3
DefaultDelay == 1000

\* Bounds of the retry inputs
MaxRetriesBound == 4
FnValues == {"v1", "v2"}
FnErrors == {"e1", "e2"}
RetryDelays == {DefaultDelay, 250}

\* const isLastAttempt = attempt === maxRetries
IsLastAttemptOffByOne(attempt, maxRetries) == attempt >= maxRetries - 1

isLastAttempt(attempt, maxRetries) == attempt = maxRetries

\* a sleep of the same length after every attempt
SleepConstantDelay(sleeps, delay, attempt) == Append(sleeps, delay)

\* await sleep(delay * attempt), recorded in the list of sleeps
SleepSkipped(sleeps, delay, attempt) == sleeps

sleep(sleeps, delay, attempt) == Append(sleeps, delay * attempt)

\* `throw error`: the error caught in this iteration
throwError(calls) == [kind |-> "error", err |-> calls[Len(calls)].err]

RetryInit ==
    /\ rMaxRetries \in {DefaultMaxRetries} \cup (0..MaxRetriesBound)
    /\ rDelay \in RetryDelays
    /\ rAttempt = 1
    /\ rPc = "call"
    /\ rCalls = << >>
    /\ rSleeps = << >>
    /\ rResult = [kind |-> "none"]
    /\ StripIdle
    /\ DedupeIdle
    /\ TagsIdle
    /\ CsvIdle
    /\ WpScriptsIdle
    /\ RestIdle

\* the loop condition attempt <= maxRetries fails: throw new Error('Unreachable')
RetryLoopExit ==
    /\ rPc = "call"
    /\ rAttempt > rMaxRetries
    /\ rPc' = "threw"
    /\ rResult' = [kind |-> "error", err |-> "Unreachable"]
    /\ UNCHANGED <<rMaxRetries, rDelay, rAttempt, rCalls, rSleeps, exceptRetry>>

\* return await fn(), fn resolving with v
RetryFnReturns ==
    /\ rPc = "call"
    /\ rAttempt <= rMaxRetries
    /\ \E v \in FnValues :
        /\ rCalls' = Append(rCalls, [ok |-> TRUE, val |-> v])
        /\ rResult' = [kind |-> "value", val |-> v]
    /\ rPc' = "returned"
    /\ UNCHANGED <<rMaxRetries, rDelay, rAttempt, rSleeps, exceptRetry>>

\* fn rejecting with e: the catch block
RetryFnThrows ==
    /\ rPc = "call"
    /\ rAttempt <= rMaxRetries
    /\ \E e \in FnErrors :
        LET calls == Append(rCalls, [ok |-> FALSE, err |-> e]) IN
        /\ rCalls' = calls
        /\ IF isLastAttempt(rAttempt, rMaxRetries)
             THEN /\ rPc' = "threw"
                  /\ rResult' = throwError(calls)
                  /\ UNCHANGED rSleeps
             ELSE /\ rPc' = "sleep"
                  /\ rSleeps' = sleep(rSleeps, rDelay, rAttempt)
                  /\ UNCHANGED rResult
    /\ UNCHANGED <<rMaxRetries, rDelay, rAttempt, exceptRetry>>

\* the sleep resolves: attempt++
RetrySleepDone ==
    /\ rPc = "sleep"
    /\ rPc' = "call"
    /\ rAttempt' = rAttempt + 1
    /\ UNCHANGED <<rMaxRetries, rDelay, rCalls, rSleeps, rResult, exceptRetry>>

RetryNext == RetryLoopExit \/ RetryFnReturns \/ RetryFnThrows \/ RetrySleepDone

SpecRetry == RetryInit /\ [][RetryNext]_vars

FailedCalls(calls) == {i \in DOMAIN calls : ~calls[i].ok}

\* C5: when retry returns, the value is the one of the last invocation, every
\* earlier invocation failed, and one delay was performed per failed
\* invocation; with maxRetries = 3 and two failures this is 3 invocations and
\* 2 delays.  After the return fn is not invoked again.
C5_ReturnsAfterFailures ==
    rPc = "returned" =>
        /\ rCalls # << >>
        /\ rCalls[Len(rCalls)].ok
        /\ rResult = [kind |-> "value", val |-> rCalls[Len(rCalls)].val]
        /\ FailedCalls(rCalls) = 1..(Len(rCalls) - 1)
        /\ Len(rSleeps) = Cardinality(FailedCalls(rCalls))
        /\ (rMaxRetries = 3 /\ Cardinality(FailedCalls(rCalls)) = 2) =>
              (Len(rCalls) = 3 /\ Len(rSleeps) = 2)
        /\ ~ENABLED RetryNext

C5_Witness ==
    /\ rPc = "returned"
    /\ rMaxRetries = 3
    /\ Len(rCalls) = 3
    /\ ~rCalls[1].ok /\ ~rCalls[2].ok /\ rCalls[3].ok
    /\ Len(rSleeps) = 2

----------------------------------------------------------------------------
(* pickPreferredBySlug / dedupeBySlug, as used by fetchWorks and            *)
(* fetchInsights of the frontend WordPress client                           *)

\* NaN, as a value outside the timestamps and ids
NaN == -1

\* Bounds of the post lists
MaxPosts == 3
PostDates == {1, 2}
PostSlugs == {<<"a">>, <<"a", "-", "2">>, <<"a", "-", "3">>, <<"a", "-", "1">>, <<"b">>}

\* WordPress gives every post of a type its own id and its own slug
DistinctSeqs(S, k) == {f \in [1..k -> S] : \A i, j \in 1..k : i # j => f[i] # f[j]}

PostList(ids, slugs, dates) ==
    [i \in DOMAIN ids |-> [id |-> ids[i], slug |-> slugs[i], date |-> dates[i]]]

\* transformWork / transformInsight: the fields dedupeBySlug and the sort
\* read.  The post's date is stored as publishDate; the result has no
\* `date` property.
transformWork(post) ==
    [id |-> post.id, slug |-> post.slug, publishDate |-> post.date]

transformInsight(post) ==
    [id |-> post.id, slug |-> post.slug, publishDate |-> post.date]

\* hydratedPosts.map(transformWork) / hydratedPosts.map(transformInsight)
MapTransformWork(seq) == [i \in DOMAIN seq |-> transformWork(seq[i])]

MapTransformInsight(seq) == [i \in DOMAIN seq |-> transformInsight(seq[i])]

isWpDuplicateSlug(s) == stripWpDuplicateSuffix(s) # s

\* (a as any)?.date ? Date.parse((a as any).date) : NaN
ItemDate(item) ==
    IF "date" \in DOMAIN item THEN item.date ELSE NaN

\* Number((a as any)?.id)
ItemId(item) ==
    IF "id" \in DOMAIN item THEN item.id ELSE NaN

pickPreferredBySlug(a, b) ==
    LET aIsDup == isWpDuplicateSlug(a.slug)
        bIsDup == isWpDuplicateSlug(b.slug)
    IN  IF aIsDup # bIsDup THEN (IF aIsDup THEN b ELSE a)
        ELSE IF ItemDate(a) # NaN /\ ItemDate(b) # NaN /\ ItemDate(a) # ItemDate(b)
          THEN (IF ItemDate(a) > ItemDate(b) THEN a ELSE b)
        ELSE IF ItemId(a) # NaN /\ ItemId(b) # NaN /\ ItemId(a) # ItemId(b)
          THEN (IF ItemId(a) > ItemId(b) THEN a ELSE b)
        ELSE a

\* const key = stripWpDuplicateSuffix(item.slug)
DedupeKeyRaw(item) == item.slug

dedupeKey(item) == stripWpDuplicateSuffix(item.slug)

\* the Map of dedupeBySlug as a sequence of entries in insertion order;
\* map.set on an existing key keeps the entry's position
MapSet(map, key, item) ==
    IF \E i \in DOMAIN map : map[i].key = key
      THEN [i \in DOMAIN map |->
               IF map[i].key = key THEN [key |-> key, item |-> item] ELSE map[i]]
      ELSE Append(map, [key |-> key, item |-> item])

MapHas(map, key) == \E i \in DOMAIN map : map[i].key = key

MapGet(map, key) == map[CHOOSE i \in DOMAIN map : map[i].key = key].item

RECURSIVE DedupeLoop(_, _)
DedupeLoop(map, items) ==
    IF items = << >> THEN map
    ELSE LET item == items[1]
             key == dedupeKey(item)
         IN  IF ~MapHas(map, key)
               THEN DedupeLoop(MapSet(map, key, item), Tail(items))
               ELSE DedupeLoop(MapSet(map, key, pickPreferredBySlug(MapGet(map, key), item)),
                               Tail(items))

\* Array.from(map.values())
dedupeBySlug(items) ==
    LET map == DedupeLoop(<< >>, items) IN [i \in DOMAIN map |-> map[i].item]

\* fetchWorks: publishDate descending, a missing date counting as 0
WorksCompare(a, b) ==
    LET dateA == IF a.publishDate # NaN THEN a.publishDate ELSE 0
        dateB == IF b.publishDate # NaN THEN b.publishDate ELSE 0
    IN  dateB - dateA

\* fetchInsights: publishDate descending, then id descending
InsightsCompare(a, b) ==
    LET ad == a.publishDate
        bd == b.publishDate
    IN  IF ad # NaN /\ bd # NaN /\ ad # bd THEN bd - ad ELSE b.id - a.id

Compare(kind, a, b) ==
    IF kind = "works" THEN WorksCompare(a, b) ELSE InsightsCompare(a, b)

\* Array.prototype.sort (stable) with the comparator of `kind`: x goes after
\* every element that does not compare greater than it
RECURSIVE InsertSorted(_, _, _)
InsertSorted(kind, sorted, x) ==
    IF sorted = << >> THEN <<x>>
    ELSE IF Compare(kind, sorted[1], x) > 0 THEN <<x>> \o sorted
    ELSE <<sorted[1]>> \o InsertSorted(kind, Tail(sorted), x)

RECURSIVE ArraySort(_, _)
ArraySort(kind, seq) ==
    IF seq = << >> THEN << >>
    ELSE InsertSorted(kind, ArraySort(kind, SubSeq(seq, 1, Len(seq) - 1)), seq[Len(seq)])

DedupeInit ==
    /\ \E k \in 0..MaxPosts :
        \E ids \in DistinctSeqs(1..MaxPosts, k), slugs \in DistinctSeqs(PostSlugs, k),
           dates \in [1..k -> PostDates] :
            posts = PostList(ids, slugs, dates)
    /\ dedupePc = "input"
    /\ deduped = << >>
    /\ fetched = << >>
    /\ StripIdle
    /\ RetryIdle
    /\ TagsIdle
    /\ CsvIdle
    /\ WpScriptsIdle
    /\ RestIdle

\* fetchWorks after the posts are fetched and hydrated (no featured / limit
\* option): dedupeBySlug(hydratedPosts.map(transformWork)), then the sort
FetchWorks ==
    /\ dedupePc = "input"
    /\ dedupePc' = "works"
    /\ deduped' = dedupeBySlug(MapTransformWork(posts))
    /\ fetched' = ArraySort("works", deduped')
    /\ UNCHANGED <<posts, exceptDedupe>>

\* fetchInsights, likewise
FetchInsights ==
    /\ dedupePc = "input"
    /\ dedupePc' = "insights"
    /\ deduped' = dedupeBySlug(MapTransformInsight(posts))
    /\ fetched' = ArraySort("insights", deduped')
    /\ UNCHANGED <<posts, exceptDedupe>>

DedupeNext == FetchWorks \/ FetchInsights

SpecDedupe == DedupeInit /\ [][DedupeNext]_vars

DedupeDone == dedupePc \in {"works", "insights"}

BaseOf(s) == stripWpDuplicateSuffix(s)

\* the fetched posts that collapse to the base slug b
Candidates(b) == {posts[i] : i \in {j \in DOMAIN posts : BaseOf(posts[j].slug) = b}}

\* the survivor C9 describes: a non-duplicate slug first, then the most
\* recent date, then the highest id
ClaimedSurvivor(b) ==
    LET c0 == Candidates(b)
        c1 == IF \E p \in c0 : ~isWpDuplicateSlug(p.slug)
                THEN {p \in c0 : ~isWpDuplicateSlug(p.slug)} ELSE c0
        c2 == {p \in c1 : \A q \in c1 : q.date <= p.date}
    IN  CHOOSE p \in c2 : \A q \in c2 : q.id <= p.id

\* C9 as stated: the survivor of every base slug is the candidate chosen by
\* non-duplicate slug, then most recent publish timestamp, then highest id.
C9_Original_SurvivorOrder ==
    DedupeDone =>
        \A i \in DOMAIN deduped :
            deduped[i].id = ClaimedSurvivor(BaseOf(deduped[i].slug)).id

----------------------------------------------------------------------------
(* reapply-insight-tags.mjs: main                                           *)
(* (the Strapi cover/gallery sync and the ACF media backfill group the      *)
(* WordPress posts with the same one-line stripWpDuplicateSuffix)           *)

\* Bounds of the inputs
MaxWpInsights == 2
MaxStrapiInsights == 2
MaxTagsPerInsight == 1
TagNames == {"t1", "t2"}
TagsWpSlugs == {<<"p">>, <<"p", "-", "2">>, <<"p", "-", "1", "9", "9", "9">>, <<"s", "-", "1">>}
TagsSourceSlugs == {<<"p">>, <<"p", "-", "1", "9", "9", "9">>, <<"s", "-", "1">>}

\* posts of one type have distinct slugs; the id of a post is its position
WpInsightLists ==
    {l \in SeqsUpTo(TagsWpSlugs, MaxWpInsights) :
        \A i, j \in DOMAIN l : i # j => l[i] # l[j]}

StrapiInsightLists ==
    SeqsUpTo([slug : TagsSourceSlugs, tags : SeqsUpTo(TagNames, MaxTagsPerInsight)],
             MaxStrapiInsights)

\* the loop of main that fills wpByBaseSlug
RECURSIVE GroupByBase(_, _)
GroupByBase(map, wpPosts) ==
    IF wpPosts = << >> THEN map
    ELSE LET post == wpPosts[1]
             base == stripWpDuplicateSuffixLax(post.slug)
             list == IF MapHas(map, base) THEN MapGet(map, base) ELSE << >>
         IN  GroupByBase(MapSet(map, base, Append(list, post)), Tail(wpPosts))

\* wpByBaseSlug.get(slug) || []
MatchesOf(map, s) == IF MapHas(map, s) THEN MapGet(map, s) ELSE << >>

\* ensureWPTags: for every tag, the id of the existing tag, else a POST
\* /tags whose outcome is createOk[name]; a tag id is the tag's name
RECURSIVE ensureWPTags(_, _, _, _)
ensureWPTags(tags, wpTags, createOk, acc) ==
    IF tags = << >> THEN acc
    ELSE LET name == tags[1] IN
         IF name \in acc.wpTags
           THEN ensureWPTags(Tail(tags), wpTags, createOk,
                    [acc EXCEPT !.ids = Append(@, name)])
         ELSE IF createOk[name]
           THEN ensureWPTags(Tail(tags), wpTags, createOk,
                    [ids |-> Append(acc.ids, name),
                     wpTags |-> acc.wpTags \cup {name},
                     writes |-> Append(acc.writes, [req |-> "createTag", tag |-> name])])
         ELSE ensureWPTags(Tail(tags), wpTags, createOk,
                    [acc EXCEPT !.writes = Append(@, [req |-> "createTag", tag |-> name])])

\* the requests of the loop `for (const post of matches)` under --yes
RECURSIVE UpdateRequests(_)
UpdateRequests(matches) ==
    IF matches = << >> THEN << >>
    ELSE <<[req |-> "updateInsight", post |-> matches[1].id]>> \o UpdateRequests(Tail(matches))

TagsInit ==
    /\ tYes \in BOOLEAN
    /\ \E l \in WpInsightLists : tWpInsights = [i \in DOMAIN l |-> [id |-> i, slug |-> l[i]]]
    /\ tStrapiInsights \in StrapiInsightLists
    /\ tWpTags \in SUBSET {"t1"}
    /\ tPc = "start"
    /\ tIdx = 0
    /\ tByBase = << >>
    /\ tCounts = [matched |-> 0, updated |-> 0, skippedNoTags |-> 0, missingWp |-> 0]
    /\ tMatches = {}
    /\ tWrites = << >>
    /\ StripIdle
    /\ RetryIdle
    /\ DedupeIdle
    /\ CsvIdle
    /\ WpScriptsIdle
    /\ RestIdle

\* main up to the loop: both lists are fetched, wpByBaseSlug is built
TagsBuildIndex ==
    /\ tPc = "start"
    /\ tByBase' = GroupByBase(<< >>, tWpInsights)
    /\ tIdx' = 1
    /\ tPc' = "loop"
    /\ UNCHANGED <<tYes, tWpInsights, tStrapiInsights, tWpTags, tCounts, tMatches,
                   tWrites, exceptTags>>

\* one iteration of `for (const insight of strapiInsights)`
TagsProcessInsight ==
    /\ tPc = "loop"
    /\ tIdx <= Len(tStrapiInsights)
    /\ \E createOk \in [TagNames -> BOOLEAN], updateOk \in BOOLEAN :
        LET insight == tStrapiInsights[tIdx]
            ensured == ensureWPTags(insight.tags, tWpTags, createOk,
                           [ids |-> << >>, wpTags |-> tWpTags, writes |-> << >>])
            matches == MatchesOf(tByBase, insight.slug)
        IN
        IF insight.tags = << >>
          THEN /\ tCounts' = [tCounts EXCEPT !.skippedNoTags = @ + 1]
               /\ tIdx' = tIdx + 1
               /\ UNCHANGED <<tWpTags, tMatches, tWrites, tPc>>
        ELSE IF ensured.ids = << >>
          THEN /\ tCounts' = [tCounts EXCEPT !.skippedNoTags = @ + 1]
               /\ tWpTags' = ensured.wpTags
               /\ tWrites' = tWrites \o ensured.writes
               /\ tIdx' = tIdx + 1
               /\ UNCHANGED <<tMatches, tPc>>
        ELSE IF matches = << >>
          THEN /\ tCounts' = [tCounts EXCEPT !.missingWp = @ + 1]
               /\ tWpTags' = ensured.wpTags
               /\ tWrites' = tWrites \o ensured.writes
               /\ tIdx' = tIdx + 1
               /\ UNCHANGED <<tMatches, tPc>>
        ELSE /\ tWpTags' = ensured.wpTags
             /\ tMatches' = tMatches \cup
                    {[source |-> insight.slug, post |-> matches[i].id] : i \in DOMAIN matches}
             /\ IF ~tYes
                  THEN /\ tCounts' = [tCounts EXCEPT !.matched = @ + 1]
                       /\ tWrites' = tWrites \o ensured.writes
                       /\ tIdx' = tIdx + 1
                       /\ UNCHANGED tPc
                ELSE IF updateOk
                  THEN /\ tCounts' = [tCounts EXCEPT !.matched = @ + 1,
                                                     !.updated = @ + Len(matches)]
                       /\ tWrites' = tWrites \o ensured.writes \o UpdateRequests(matches)
                       /\ tIdx' = tIdx + 1
                       /\ UNCHANGED tPc
                  \* updateInsightTags throws on the first post: main rejects
                  ELSE /\ tCounts' = [tCounts EXCEPT !.matched = @ + 1]
                       /\ tWrites' = tWrites \o ensured.writes
                                        \o <<[req |-> "updateInsight", post |-> matches[1].id]>>
                       /\ tPc' = "failed"
                       /\ UNCHANGED tIdx
    /\ UNCHANGED <<tYes, tWpInsights, tStrapiInsights, tByBase, exceptTags>>

\* the loop is over: the summary is printed
TagsFinish ==
    /\ tPc = "loop"
    /\ tIdx > Len(tStrapiInsights)
    /\ tPc' = "done"
    /\ UNCHANGED <<tYes, tWpInsights, tStrapiInsights, tWpTags, tIdx, tByBase, tCounts,
                   tMatches, tWrites, exceptTags>>

TagsNext == TagsBuildIndex \/ TagsProcessInsight \/ TagsFinish

SpecTags == TagsInit /\ [][TagsNext]_vars

\* C8 as stated: a WordPress post whose slug has no numeric suffix in 2..99
\* ('p-1999', 's-1') is indexed under its full slug.
C8_Original_FullSlugIndexed ==
    tPc \in {"loop", "done"} =>
        \A i \in DOMAIN tWpInsights :
            ~isWpDuplicateSlug(tWpInsights[i].slug) =>
                \E k \in DOMAIN MatchesOf(tByBase, tWpInsights[i].slug) :
                    MatchesOf(tByBase, tWpInsights[i].slug)[k] = tWpInsights[i]

\* C14: reapply-insight-tags started without --yes sends no write request
\* to WordPress: no tag is created and no insight is updated.
C14_Original_NoWriteWithoutYes ==
    ~tYes => tWrites = << >>

----------------------------------------------------------------------------
(* CSV -> Strapi migration CLI: migration/src/index.ts, config, uploaders,  *)
(* migrateWorks / migrateInsights                                           *)

\* Bounds of the inputs
MaxRows == 2
MaxInsightRows == 1
MaxRuns == 2

\* row['Name']?.toLowerCase().replace(/\s+/g, '-') on the names of CsvNames
NameToSlug(name) ==
    CASE name = "A b" -> "a-b"
      [] name = "" -> ""
      [] OTHER -> name

\* a CSV row: the Slug and Name columns and the image URLs of the row, in the
\* order transformRow processes them
CsvRows ==
    { [Slug |-> "a-b", Name |-> "A b", images |-> << >>],
      [Slug |-> "",    Name |-> "A b", images |-> << >>],
      [Slug |-> "a-b", Name |-> "A b", images |-> <<"u1">>] }

\* failures of a request before it succeeds, as drawn for createEntry and
\* publishEntry: none, one, or as many as there are attempts
RequestFailures == {0, 1, DefaultMaxRetries}

\* outcome of one attempt of the function processImage hands to retry
ImageAttemptOutcomes == {"ok", "notFound", "downloadFails", "uploadFails"}

\* the attempts retry makes: failures, ended by the first attempt that does
\* not throw or by the third failure; a URL answers every attempt of one
\* processImage call the same way
ImageAttempts(dry) ==
    LET Throws(o) == o = "downloadFails" \/ (o = "uploadFails" /\ ~dry) IN
    {a \in SeqsUpTo(ImageAttemptOutcomes, DefaultMaxRetries) :
        /\ Len(a) >= 1
        /\ \A k \in 1..(Len(a) - 1) : Throws(a[k])
        /\ (Len(a) < DefaultMaxRetries => ~Throws(a[Len(a)]))
        /\ \A k \in DOMAIN a : a[k] = a[1]}

\* processImage(url): requests sent and the media id (0: null, -1: dry run)
processImage(attempts, dry) ==
    LET last == attempts[Len(attempts)]
        Uploads(o) == o = "ok" \/ o = "uploadFails"
    IN  [downloads |-> Len(attempts),
         uploads |-> IF dry THEN 0
                     ELSE Cardinality({k \in DOMAIN attempts : Uploads(attempts[k])}),
         id |-> IF last = "ok" \/ (last = "uploadFails" /\ dry)
                  THEN (IF dry THEN -1 ELSE 1)
                  ELSE 0,
         \* the catch of processImage: retry threw after the last attempt
         gaveUp |-> IF last = "downloadFails" THEN "download"
                    ELSE IF last = "uploadFails" /\ ~dry THEN "upload"
                    ELSE "none"]

\* number of invocations retry makes of a function that fails `fails` times
\* before it succeeds, and whether retry throws
RetryInvocations(fails, maxRetries) ==
    IF fails >= maxRetries THEN maxRetries ELSE fails + 1

RetryThrows(fails, maxRetries) == fails >= maxRetries

\* findBySlug(coll, slug): entries[0] of the entries whose slug equals the
\* filter value, null when there is none or when the request fails
findBySlug(strapi, coll, slugParam, lookupOk) ==
    lookupOk /\ [coll |-> coll, slug |-> slugParam] \in strapi

\* the slug migrateWorks / migrateInsights hand to findBySlug: row['Slug']
LookupSlug(row) == row.Slug

\* transformRow: slug: row['Slug'] || row['Name']?.toLowerCase()... || ''
EntrySlug(row) == IF row.Slug # "" THEN row.Slug ELSE NameToSlug(row.Name)

\* CONFIG.dryRun = process.env.DRY_RUN === 'true', evaluated when config.js is
\* loaded, which is before main() runs (imports are hoisted)
ConfigDryRun(env0, args) == env0

CsvInit ==
    /\ cEnv0 \in BOOLEAN
    /\ cArgs \in {a \in [dryRun : BOOLEAN, worksOnly : BOOLEAN, insightsOnly : BOOLEAN] :
                     ~(a.worksOnly /\ a.insightsOnly)}
    /\ cCsv \in [works : SeqsUpTo(CsvRows, MaxRows),
                  insights : SeqsUpTo(CsvRows, MaxInsightRows)]
    /\ cProc = [envDryRun |-> cEnv0, configDryRun |-> FALSE]
    /\ cPc = "load"
    /\ cI = 0
    /\ cStrapi = {}
    /\ cResults = NoResults
    /\ cRequests = NoRequests
    /\ cCreateCalls = {}
    /\ cExit = -1
    /\ cRun = 1
    /\ StripIdle
    /\ RetryIdle
    /\ DedupeIdle
    /\ TagsIdle
    /\ WpScriptsIdle
    /\ RestIdle

\* the imports of index.ts are evaluated: config.js computes CONFIG
CsvLoadConfig ==
    /\ cPc = "load"
    /\ cProc' = [cProc EXCEPT !.configDryRun = ConfigDryRun(cEnv0, cArgs)]
    /\ cPc' = "main"
    /\ UNCHANGED <<cEnv0, cArgs, cCsv, cI, cStrapi, cResults, cRequests, cCreateCalls,
                   cExit, cRun, exceptCsv>>

\* main up to the first migration: the flags, process.env.DRY_RUN, testConnection
CsvMainStart ==
    /\ cPc = "main"
    /\ cProc' = [cProc EXCEPT !.envDryRun = @ \/ cArgs.dryRun]
    /\ \E connected \in BOOLEAN :
        IF ~connected
          THEN /\ cPc' = "exit"
               /\ cExit' = 1
               /\ UNCHANGED cI
          ELSE /\ cPc' = IF ~cArgs.insightsOnly THEN "works"
                         ELSE IF ~cArgs.worksOnly THEN "insights" ELSE "summary"
               /\ cI' = 1
               /\ UNCHANGED cExit
    /\ UNCHANGED <<cEnv0, cArgs, cCsv, cStrapi, cResults, cRequests, cCreateCalls,
                   cRun, exceptCsv>>

\* leaves a row that succeeded or was skipped uncounted
CountRowFailedOnly(results, coll, ok) ==
    [results EXCEPT ![coll] =
        IF ok THEN @ ELSE [@ EXCEPT !.failed = @ + 1]]

\* counts a failed row twice
CountRowFailedTwice(results, coll, ok) ==
    [results EXCEPT ![coll] =
        IF ok THEN [@ EXCEPT !.success = @ + 1] ELSE [@ EXCEPT !.failed = @ + 2]]

\* success++ / failed++ of migrateWorks and migrateInsights
CountRow(results, coll, ok) ==
    [results EXCEPT ![coll] =
        IF ok THEN [@ EXCEPT !.success = @ + 1] ELSE [@ EXCEPT !.failed = @ + 1]]

\* one iteration of the loop of migrateWorks / migrateInsights
MigrateRow(coll) ==
    LET row == cCsv[coll][cI]
        dry == cProc.configDryRun
        Count(ok) == CountRow(cResults, coll, ok)
    IN
    /\ cI' = cI + 1
    /\ \E lookupOk \in BOOLEAN :
        IF findBySlug(cStrapi, coll, LookupSlug(row), lookupOk)
          THEN \* skipping existing entry
               /\ cResults' = Count(TRUE)
               /\ UNCHANGED <<cStrapi, cRequests, cCreateCalls>>
          ELSE
            \E atts \in [DOMAIN row.images -> ImageAttempts(dry)] :
              LET imgs == [k \in DOMAIN row.images |-> processImage(atts[k], dry)]
                  RECURSIVE Sum(_, _)
                  Sum(f, k) == IF k = 0 THEN 0 ELSE f[k] + Sum(f, k - 1)
                  downloads == Sum([k \in DOMAIN imgs |-> imgs[k].downloads], Len(imgs))
                  uploads == Sum([k \in DOMAIN imgs |-> imgs[k].uploads], Len(imgs))
                  GaveUp(kind) == Cardinality({k \in DOMAIN imgs : imgs[k].gaveUp = kind})
                  sent == [cRequests EXCEPT !.download = @ + downloads,
                                            !.upload = @ + uploads,
                                            !.downloadGaveUp = @ + GaveUp("download"),
                                            !.uploadGaveUp = @ + GaveUp("upload")]
                  entry == [coll |-> coll, slug |-> EntrySlug(row)]
                  call == [coll |-> coll, slug |-> entry.slug, existed |-> entry \in cStrapi]
              IN
              /\ cCreateCalls' = cCreateCalls \cup {call}
              /\ IF dry
                   THEN \* createEntry returns the dry-run entry; no publish
                        /\ cResults' = Count(TRUE)
                        /\ cRequests' = sent
                        /\ UNCHANGED cStrapi
                   ELSE
                     \E createFails \in RequestFailures, createdEmpty \in BOOLEAN :
                       IF RetryThrows(createFails, DefaultMaxRetries)
                         THEN /\ cResults' = Count(FALSE)
                              /\ cRequests' = [sent EXCEPT
                                     !.create = @ + RetryInvocations(createFails, DefaultMaxRetries),
                                     !.rowThrew = @ + 1]
                              /\ UNCHANGED cStrapi
                       ELSE IF createdEmpty
                         THEN \* response.data.data is empty: `created` is falsy
                              /\ cResults' = Count(FALSE)
                              /\ cRequests' = [sent EXCEPT
                                     !.create = @ + RetryInvocations(createFails, DefaultMaxRetries)]
                              /\ UNCHANGED cStrapi
                       ELSE
                         \E publishFails \in RequestFailures :
                           /\ cStrapi' = cStrapi \cup {entry}
                           /\ cRequests' = [sent EXCEPT
                                  !.create = @ + RetryInvocations(createFails, DefaultMaxRetries),
                                  !.publish = @ + RetryInvocations(publishFails, DefaultMaxRetries),
                                  !.rowThrew = @ + (IF RetryThrows(publishFails, DefaultMaxRetries)
                                                      THEN 1 ELSE 0)]
                           /\ cResults' = Count(~RetryThrows(publishFails, DefaultMaxRetries))
    /\ UNCHANGED <<cEnv0, cArgs, cCsv, cProc, cPc, cExit, cRun, exceptCsv>>

CsvMigrateWorksRow ==
    /\ cPc = "works"
    /\ cI <= Len(cCsv.works)
    /\ MigrateRow("works")

\* migrateWorks returns: main goes on to migrateInsights or to the summary
CsvWorksDone ==
    /\ cPc = "works"
    /\ cI > Len(cCsv.works)
    /\ cPc' = IF ~cArgs.worksOnly THEN "insights" ELSE "summary"
    /\ cI' = 1
    /\ UNCHANGED <<cEnv0, cArgs, cCsv, cProc, cStrapi, cResults, cRequests, cCreateCalls,
                   cExit, cRun, exceptCsv>>

CsvMigrateInsightsRow ==
    /\ cPc = "insights"
    /\ cI <= Len(cCsv.insights)
    /\ MigrateRow("insights")

CsvInsightsDone ==
    /\ cPc = "insights"
    /\ cI > Len(cCsv.insights)
    /\ cPc' = "summary"
    /\ UNCHANGED <<cEnv0, cArgs, cCsv, cProc, cI, cStrapi, cResults, cRequests,
                   cCreateCalls, cExit, cRun, exceptCsv>>

\* process.exit(totalFailed > 0 ? 1 : 0)
CsvSummary ==
    /\ cPc = "summary"
    /\ cPc' = "exit"
    /\ cExit' = IF cResults.works.failed + cResults.insights.failed > 0 THEN 1 ELSE 0
    /\ UNCHANGED <<cEnv0, cArgs, cCsv, cProc, cI, cStrapi, cResults, cRequests,
                   cCreateCalls, cRun, exceptCsv>>

\* the CLI is started again with the same command line, environment and CSVs
CsvRunAgain ==
    /\ cPc = "exit"
    /\ cRun < MaxRuns
    /\ cRun' = cRun + 1
    /\ cProc' = [envDryRun |-> cEnv0, configDryRun |-> FALSE]
    /\ cPc' = "load"
    /\ cI' = 0
    /\ cResults' = NoResults
    /\ cRequests' = NoRequests
    /\ cCreateCalls' = {}
    /\ cExit' = -1
    /\ UNCHANGED <<cEnv0, cArgs, cCsv, cStrapi, exceptCsv>>

CsvNext ==
    \/ CsvLoadConfig
    \/ CsvMainStart
    \/ CsvMigrateWorksRow
    \/ CsvWorksDone
    \/ CsvMigrateInsightsRow
    \/ CsvInsightsDone
    \/ CsvSummary
    \/ CsvRunAgain

SpecCsv == CsvInit /\ [][CsvNext]_vars

WriteRequests == cRequests.upload + cRequests.create + cRequests.publish

\* C1 as stated: started with --dry-run and DRY_RUN not set in the
\* environment, the CLI sends no write request (upload, create, publish).
C1_Original_DryRunFlagNoWrites ==
    (cArgs.dryRun /\ ~cEnv0) => WriteRequests = 0

\* C4 as stated: createEntry is called for a row only if the destination has
\* no record with the row's slug (so a second run creates nothing).
C4_Original_CreateOnlyIfAbsent ==
    \A call \in cCreateCalls : ~call.existed

\* the runs that send creates and publishes only: DRY_RUN unset, no
\* --dry-run, rows without images
CsvWriteInit ==
    /\ CsvInit
    /\ ~cEnv0
    /\ ~cArgs.dryRun
    /\ \A coll \in {"works", "insights"} :
          \A k \in DOMAIN cCsv[coll] : cCsv[coll][k].images = << >>

\* one run of the CLI
CsvRunNext ==
    \/ CsvLoadConfig
    \/ CsvMainStart
    \/ CsvMigrateWorksRow
    \/ CsvWorksDone
    \/ CsvMigrateInsightsRow
    \/ CsvInsightsDone
    \/ CsvSummary

SpecCsvWrite == CsvWriteInit /\ [][CsvRunNext]_vars

TotalSuccess(results) == results.works.success + results.insights.success

TotalFailed(results) == results.works.failed + results.insights.failed

\* C15: a run of the CSV migration driver ends with exit code 0 only if no
\* item failed: when an upload was given up after its retries, or the create
\* or publish of a row threw, the exit code is 1.
C15_Original_ExitZeroOnlyIfNoFailure ==
    cPc = "exit" /\ cExit = 0 =>
        cRequests.uploadGaveUp = 0 /\ cRequests.rowThrew = 0

\* C16: when the create or publish of a row fails after its retries, failed
\* grows by exactly 1 for that row and success does not, the loop goes on
\* with the next row, and at the summary every row of every selected CSV has
\* been counted once.
C16_FailedRowCounted ==
    /\ [][cRequests'.rowThrew = cRequests.rowThrew + 1 =>
            /\ TotalFailed(cResults') = TotalFailed(cResults) + 1
            /\ TotalSuccess(cResults') = TotalSuccess(cResults)
            /\ cI' = cI + 1
            /\ cPc' = cPc]_vars
    /\ [](cPc = "summary" =>
            /\ cResults.works.success + cResults.works.failed
                  = (IF cArgs.insightsOnly THEN 0 ELSE Len(cCsv.works))
            /\ cResults.insights.success + cResults.insights.failed
                  = (IF cArgs.worksOnly THEN 0 ELSE Len(cCsv.insights))
            /\ TotalFailed(cResults) >= cRequests.rowThrew)

C16_Witness ==
    /\ cPc = "summary"
    /\ cRequests.rowThrew = 1
    /\ cResults.works = [success |-> 0, failed |-> 1]
    /\ cResults.insights = [success |-> 1, failed |-> 0]

\* the rows of a CSV counted so far
Counted(coll) == cResults[coll].success + cResults[coll].failed

\* C30: migrateWorks and migrateInsights count every row exactly once: at
\* every point of the loop success + failed is the number of rows processed
\* so far, and on return it is the number of rows of the CSV.
C30_EveryRowCountedOnce ==
    /\ cPc = "works" =>
          /\ Counted("works") = cI - 1
          /\ Counted("insights") = 0
    /\ cPc = "insights" =>
          /\ Counted("insights") = cI - 1
          /\ Counted("works") = (IF cArgs.insightsOnly THEN 0 ELSE Len(cCsv.works))
    /\ cPc = "summary" =>
          /\ Counted("works") = (IF cArgs.insightsOnly THEN 0 ELSE Len(cCsv.works))
          /\ Counted("insights") = (IF cArgs.worksOnly THEN 0 ELSE Len(cCsv.insights))

\* a run with a created row, a skipped row and a failed row
C30_Witness ==
    /\ cPc = "summary"
    /\ Len(cCsv.works) = 2
    /\ cResults.works = [success |-> 2, failed |-> 0]
    /\ cResults.insights = [success |-> 0, failed |-> 1]
    /\ cRequests.create = 2

\* C17: a row whose image download or upload keeps failing with an error
\* other than 404 through every retry is counted in failed, not in success
\* (each row of CsvRows has at most one image).
C17_Original_ImageFailureFailsRow ==
    TotalFailed(cResults) >= cRequests.downloadGaveUp + cRequests.uploadGaveUp

\* C13: within one run the media resolver sends at most one download and at
\* most one upload for each distinct image URL, however many rows reference
\* it and whatever earlier requests returned (every image of CsvRows is the
\* one URL "u1").
C13_Original_OncePerUrl ==
    /\ cRequests.download <= 1
    /\ cRequests.upload <= 1

----------------------------------------------------------------------------
(* sync_wp_insights_from_csv.mjs                                            *)

\* Bounds of the inputs
MaxSyncRows == 3
MaxSyncWp == 2

SyncDay == "2024-01-01"
OtherDay == "2023-05-05"

\* baseSeconds = 12 * 60 * 60
BaseSeconds == 43200

\* a CSV row (the Archived / Draft columns are empty, Featured? and
\* Post Description are empty in the CSV and at the destination)
SyncRow(s, name, date, body, tags, img) ==
    [Slug |-> s, Name |-> name, Datepublished |-> date, body |-> body,
     Tags |-> tags, main |-> img, thumb |-> img]

SyncRowKinds ==
    { SyncRow(<<"a">>, "T", SyncDay, "B", << >>, ""),
      SyncRow(<<"a">>, "T", SyncDay, "B", <<"t">>, "u1"),
      SyncRow(<<"b">>, "T", SyncDay, "B", << >>, ""),
      SyncRow(<<"b">>, "", SyncDay, "B", << >>, ""),
      SyncRow(<<"b">>, "T", "bad", "B", << >>, ""),
      SyncRow(<<"b">>, "T", SyncDay, "", <<"t">>, ""),
      SyncRow(<<"a", "-", "2">>, "T", SyncDay, "B", << >>, "") }

SlugRank(s) == CASE s = <<"a">> -> 1 [] s = <<"b">> -> 2 [] OTHER -> 3

\* the CSVs: at most one row per slug, in a fixed order of the slugs
SyncCsvs ==
    {c \in SeqsUpTo(SyncRowKinds, MaxSyncRows) :
        \A i \in 1..(Len(c) - 1) : SlugRank(c[i].Slug) < SlugRank(c[i + 1].Slug)}

\* the posts at the destination: id, slug, date_gmt, featured_media and
\* acf.thumbnailImage (0: none)
SyncWpKinds ==
    {[slug |-> sl, date_gmt |-> <<d, BaseSeconds>>, featured_media |-> m,
      thumbnailImage |-> m] :
        sl \in {<<"a">>, <<"a", "-", "2">>}, d \in {SyncDay, OtherDay}, m \in {0, 1}}

SyncWpLists ==
    {[i \in DOMAIN k |-> [id |-> i, slug |-> k[i].slug, date_gmt |-> k[i].date_gmt,
                          featured_media |-> k[i].featured_media,
                          thumbnailImage |-> k[i].thumbnailImage]] :
        k \in SeqsUpTo(SyncWpKinds, MaxSyncWp)}

\* parseCsvDateToIso: null ("") when the value is empty or no date
parseCsvDateToIso(dateString) ==
    IF dateString \in {SyncDay, OtherDay} THEN dateString ELSE ""

\* buildIsoDateTime(dateYmd, seconds)
buildIsoDateTime(dateYmd, seconds) == <<dateYmd, seconds>>

\* bySlug: the first row of every non-empty trimmed slug
RECURSIVE BySlug(_, _)
BySlug(map, rows) ==
    IF rows = << >> THEN map
    ELSE LET row == rows[1]
             key == Trim(row.Slug)
         IN  IF key = << >> \/ MapHas(map, key)
               THEN BySlug(map, Tail(rows))
               ELSE BySlug(MapSet(map, key, row), Tail(rows))

\* targetSlugs when the live site lists no slug: Array.from(bySlug.keys())
targetSlugs(bySlug) == [i \in DOMAIN bySlug |-> bySlug[i].key]

\* wpByBase: the posts grouped by stripWpDuplicateSuffix(post.slug)
RECURSIVE SyncGroupByBase(_, _)
SyncGroupByBase(map, wpPosts) ==
    IF wpPosts = << >> THEN map
    ELSE LET post == wpPosts[1]
             base == stripWpDuplicateSuffixSync(post.slug)
             list == IF MapHas(map, base) THEN MapGet(map, base) ELSE << >>
         IN  SyncGroupByBase(MapSet(map, base, Append(list, post)), Tail(wpPosts))

\* ensureWpTags: acc holds the ids, the tags of WordPress and the POSTs sent
RECURSIVE ensureWpTags(_, _, _, _, _)
ensureWpTags(tagNames, seen, dry, createOk, acc) ==
    IF tagNames = << >> THEN acc
    ELSE LET name == tagNames[1]
             rest == Tail(tagNames)
         IN  IF name = "" \/ name \in seen
               THEN ensureWpTags(rest, seen, dry, createOk, acc)
             ELSE IF name \in acc.wpTags
               THEN ensureWpTags(rest, seen \cup {name}, dry, createOk,
                                 [acc EXCEPT !.ids = Append(@, name)])
             ELSE IF dry
               THEN ensureWpTags(rest, seen \cup {name}, dry, createOk, acc)
             ELSE IF createOk
               THEN ensureWpTags(rest, seen \cup {name}, dry, createOk,
                                 [acc EXCEPT !.ids = Append(@, name),
                                             !.wpTags = @ \cup {name},
                                             !.posts = @ + 1])
             ELSE ensureWpTags(rest, seen \cup {name}, dry, createOk,
                               [acc EXCEPT !.posts = @ + 1])

\* how the requests of one media resolution go
MediaOutcomes == {"ok", "lookupFails", "downloadFails", "uploadFails"}

\* ensureWpMediaFromRemoteUrl(remoteUrl): the id (0: null), the cache and the
\* media library afterwards, the requests sent, and whether it threw
ensureWpMediaFromRemoteUrl(url, cache, lib, dry, outcome) ==
    LET none == [cache |-> cache, lib |-> lib, id |-> 0, threw |-> FALSE,
                 downloads |-> 0, uploads |-> 0]
    IN  IF url = "" THEN none
        ELSE IF MapHas(cache, url) THEN [none EXCEPT !.id = MapGet(cache, url)]
        ELSE IF outcome # "lookupFails" /\ url \in lib
          THEN [none EXCEPT !.cache = MapSet(cache, url, 1), !.id = 1]
        ELSE IF dry
          THEN [none EXCEPT !.cache = MapSet(cache, url, 0)]
        ELSE IF outcome = "downloadFails"
          THEN [none EXCEPT !.threw = TRUE, !.downloads = 1]
        ELSE IF outcome = "uploadFails"
          THEN [none EXCEPT !.threw = TRUE, !.downloads = 1, !.uploads = 1]
        ELSE [none EXCEPT !.cache = MapSet(cache, url, 1), !.lib = lib \cup {url},
                          !.id = 1, !.downloads = 1, !.uploads = 1]

\* the two resolutions of a row, `Main image` first, `Thumbnail image` second;
\* the second is not made when the first throws
ResolveMedia(mainUrl, thumbUrl, cache, lib, dry, outcome) ==
    LET m1 == ensureWpMediaFromRemoteUrl(mainUrl, cache, lib, dry, outcome)
        m2 == IF m1.threw
                THEN [m1 EXCEPT !.id = 0, !.downloads = 0, !.uploads = 0]
                ELSE ensureWpMediaFromRemoteUrl(thumbUrl, m1.cache, m1.lib, dry, outcome)
    IN  [cache |-> m2.cache, lib |-> m2.lib, main |-> m1.id, thumb |-> m2.id,
         threw |-> m2.threw,
         downloads |-> m1.downloads + m2.downloads,
         uploads |-> m1.uploads + m2.uploads]

\* createWpInsight with the dry-run branch taken whatever isDryRun is
CreateIgnoresDryRun(dry) == 1

\* createWpInsight: the POST /insight requests it sends
createWpInsight(dry) == IF dry THEN 0 ELSE 1

\* updateWpInsight: the POST /insight/<id> requests it sends
updateWpInsight(dry) == IF dry THEN 0 ELSE 1

\* the target slug of the iteration the main loop is in, its row, its dateIso
\* and its posts
TargetRow == MapGet(sBySlug, sTargets[sIdx])

TargetDateIso == buildIsoDateTime(parseCsvDateToIso(TargetRow.Datepublished), BaseSeconds)

TargetPosts == MatchesOf(sWpByBase, sTargets[sIdx])

\* `if (!title) ... if (!dateYmd) ...`
TargetSkipped == TargetRow.Name = "" \/ parseCsvDateToIso(TargetRow.Datepublished) = ""

SyncInit ==
    /\ sArgs \in [yes : BOOLEAN, dryRun : BOOLEAN]
    /\ sRows \in SyncCsvs
    /\ sWp \in SyncWpLists
    /\ sWpTags = {}
    /\ sMediaLib = {}
    /\ sPc = "gate"
    /\ sTargets = << >>
    /\ sBySlug = << >>
    /\ sIdx = 0
    /\ sK = 0
    /\ sFetched = << >>
    /\ sWpByBase = << >>
    /\ sCounts = NoSyncCounts
    /\ sRequests = NoSyncRequests
    /\ sMediaCache = << >>
    /\ sExit = -1
    /\ StripIdle
    /\ RetryIdle
    /\ DedupeIdle
    /\ TagsIdle
    /\ CsvIdle
    /\ GateIdle
    /\ RestIdle

\* if (!isYes) { ...; process.exit(1) }
SyncGate ==
    /\ sPc = "gate"
    /\ IF ~sArgs.yes
         THEN sPc' = "refused" /\ sExit' = 1
         ELSE sPc' = "read" /\ UNCHANGED sExit
    /\ UNCHANGED <<sArgs, sRows, sWp, sWpTags, sMediaLib, sTargets, sBySlug, sIdx, sK,
                   sFetched, sWpByBase, sCounts, sRequests, sMediaCache, exceptSync>>

\* main up to the loop: the CSV, the posts of WordPress (the list stops at the
\* first page that is not ok), wpByBase
SyncRead ==
    /\ sPc = "read"
    /\ \E fetchOk \in BOOLEAN :
        LET wpPosts == IF fetchOk THEN sWp ELSE << >> IN
        /\ sFetched' = wpPosts
        /\ sWpByBase' = SyncGroupByBase(<< >>, wpPosts)
    /\ sBySlug' = BySlug(<< >>, sRows)
    /\ sTargets' = targetSlugs(sBySlug')
    /\ sIdx' = 1
    /\ sK' = 1
    /\ sPc' = "loop"
    /\ UNCHANGED <<sArgs, sRows, sWp, sWpTags, sMediaLib, sCounts, sRequests,
                   sMediaCache, sExit, exceptSync>>

\* an iteration of the main loop that ends in a `continue` before the posts
\* are looked at: missing title, invalid date
SyncSkipSlug ==
    /\ sPc = "loop"
    /\ sIdx <= Len(sTargets)
    /\ TargetSkipped
    /\ sCounts' = [sCounts EXCEPT !.skipped = @ + 1]
    /\ sIdx' = sIdx + 1
    /\ UNCHANGED <<sArgs, sRows, sWp, sWpTags, sMediaLib, sPc, sTargets, sBySlug, sK,
                   sFetched, sWpByBase, sRequests, sMediaCache, sExit, exceptSync>>

\* an iteration of the main loop for a slug without posts: the tags, the
\* media and the post are created
SyncCreateSlug ==
    /\ sPc = "loop"
    /\ sIdx <= Len(sTargets)
    /\ ~TargetSkipped
    /\ TargetPosts = << >>
    /\ \E tagOk \in BOOLEAN :
        LET tg == ensureWpTags(TargetRow.Tags, {}, sArgs.dryRun, tagOk,
                               [ids |-> << >>, wpTags |-> sWpTags, posts |-> 0])
        IN
        /\ sWpTags' = tg.wpTags
        /\ IF TargetRow.body = ""
             THEN /\ sCounts' = [sCounts EXCEPT !.skipped = @ + 1]
                  /\ sRequests' = [sRequests EXCEPT !.tag = @ + tg.posts]
                  /\ sIdx' = sIdx + 1
                  /\ UNCHANGED <<sWp, sMediaLib, sMediaCache, sPc, sExit>>
             ELSE \E outcome \in MediaOutcomes, createOk \in BOOLEAN :
                  LET md == ResolveMedia(TargetRow.main, TargetRow.thumb, sMediaCache,
                                         sMediaLib, sArgs.dryRun, outcome)
                      sent == IF md.threw THEN 0 ELSE createWpInsight(sArgs.dryRun)
                      threw == md.threw \/ (~sArgs.dryRun /\ ~createOk)
                  IN
                  /\ sMediaCache' = md.cache
                  /\ sMediaLib' = md.lib
                  /\ sRequests' = [sRequests EXCEPT !.tag = @ + tg.posts,
                                                    !.download = @ + md.downloads,
                                                    !.upload = @ + md.uploads,
                                                    !.create = @ + sent]
                  /\ IF threw
                       \* main().catch: process.exit(1)
                       THEN /\ sPc' = "failed"
                            /\ sExit' = 1
                            /\ UNCHANGED <<sWp, sCounts, sIdx>>
                       ELSE /\ sCounts' = [sCounts EXCEPT !.created = @ + 1]
                            /\ sWp' = IF sArgs.dryRun THEN sWp
                                      ELSE Append(sWp,
                                             [id |-> Len(sWp) + 1,
                                              slug |-> sTargets[sIdx],
                                              date_gmt |-> TargetDateIso,
                                              featured_media |-> md.main,
                                              thumbnailImage |-> md.thumb])
                            /\ sIdx' = sIdx + 1
                            /\ UNCHANGED <<sPc, sExit>>
    /\ UNCHANGED <<sArgs, sRows, sTargets, sBySlug, sK, sFetched, sWpByBase, exceptSync>>

\* one iteration of `for (const post of posts)`; after the last post the main
\* loop goes on to the next slug
SyncUpdatePost ==
    /\ sPc = "loop"
    /\ sIdx <= Len(sTargets)
    /\ ~TargetSkipped
    /\ TargetPosts # << >>
    /\ \E outcome \in MediaOutcomes, updateOk \in BOOLEAN :
        LET post == TargetPosts[sK]
            isDuplicate == stripWpDuplicateSuffixSync(post.slug) # post.slug
            needsFeaturedMedia == ~isDuplicate /\ post.featured_media = 0
            needsAcfThumb == ~isDuplicate /\ post.thumbnailImage = 0
            md == ResolveMedia(IF needsFeaturedMedia THEN TargetRow.main ELSE "",
                               IF needsAcfThumb THEN TargetRow.thumb ELSE "",
                               sMediaCache, sMediaLib, sArgs.dryRun, outcome)
            needsDateUpdate == post.date_gmt # TargetDateIso
            needsMediaUpdate == (needsFeaturedMedia /\ md.main # 0)
                                  \/ (needsAcfThumb /\ md.thumb # 0)
            updates == ~md.threw /\ (needsDateUpdate \/ needsMediaUpdate)
            sent == IF updates THEN updateWpInsight(sArgs.dryRun) ELSE 0
            threw == md.threw \/ (updates /\ ~sArgs.dryRun /\ ~updateOk)
        IN
        /\ sMediaCache' = md.cache
        /\ sMediaLib' = md.lib
        /\ sRequests' = [sRequests EXCEPT !.download = @ + md.downloads,
                                          !.upload = @ + md.uploads,
                                          !.update = @ + sent]
        /\ IF threw
             THEN /\ sPc' = "failed"
                  /\ sExit' = 1
                  /\ UNCHANGED <<sWp, sCounts, sIdx, sK>>
             ELSE /\ sCounts' = [sCounts EXCEPT !.updated = @ + (IF updates THEN 1 ELSE 0)]
                  /\ sWp' = IF updates /\ ~sArgs.dryRun
                              THEN [i \in DOMAIN sWp |->
                                      IF sWp[i].id # post.id THEN sWp[i]
                                      ELSE [sWp[i] EXCEPT
                                              !.date_gmt = TargetDateIso,
                                              !.featured_media =
                                                  IF needsFeaturedMedia /\ md.main # 0
                                                    THEN md.main ELSE @,
                                              !.thumbnailImage =
                                                  IF needsAcfThumb /\ md.thumb # 0
                                                    THEN md.thumb ELSE @]]
                              ELSE sWp
                  /\ IF sK < Len(TargetPosts)
                       THEN sK' = sK + 1 /\ UNCHANGED sIdx
                       ELSE sK' = 1 /\ sIdx' = sIdx + 1
                  /\ UNCHANGED <<sPc, sExit>>
    /\ UNCHANGED <<sArgs, sRows, sWpTags, sTargets, sBySlug, sFetched, sWpByBase,
                   exceptSync>>

\* the loop is over: the counts are printed
SyncFinish ==
    /\ sPc = "loop"
    /\ sIdx > Len(sTargets)
    /\ sPc' = "done"
    /\ sExit' = 0
    /\ UNCHANGED <<sArgs, sRows, sWp, sWpTags, sMediaLib, sTargets, sBySlug, sIdx, sK,
                   sFetched, sWpByBase, sCounts, sRequests, sMediaCache, exceptSync>>

SyncNext ==
    \/ SyncGate
    \/ SyncRead
    \/ SyncSkipSlug
    \/ SyncCreateSlug
    \/ SyncUpdatePost
    \/ SyncFinish

SpecSync == SyncInit /\ [][SyncNext]_vars

SyncWrites == sRequests.tag + sRequests.upload + sRequests.create + sRequests.update

\* the posts the script read from WordPress whose slug is the target slug or a
\* duplicate-suffixed variant of it
ExistingFor(target) ==
    {i \in DOMAIN sFetched :
        \/ sFetched[i].slug = target
        \/ stripWpDuplicateSuffixSync(sFetched[i].slug) = target}

\* C25: a create request is sent for a target slug only if the list of
\* WordPress insights the run read holds no post with that slug (or a
\* duplicate-suffixed variant of it), for every CSV slug including the ones
\* that end in '-<number>'; so a second run creates nothing.
C25_Original_NoCreateWhenPresent ==
    [][sRequests.create' > sRequests.create => ExistingFor(sTargets[sIdx]) = {}]_vars

\* the case of C2: a finished dry run over three complete rows, exactly one of
\* which has a post with the same slug at the destination, the list of the
\* destination's posts having been read
SyncCompleteRow(row) == row.Name # "" /\ parseCsvDateToIso(row.Datepublished) # "" /\ row.body # ""

HasSameSlugPost(s) == \E i \in DOMAIN sWp : sWp[i].slug = s

DryRunFixture ==
    /\ sPc = "done"
    /\ sArgs.yes
    /\ sArgs.dryRun
    /\ sFetched = sWp
    /\ Len(sTargets) = 3
    /\ \A i \in DOMAIN sRows : SyncCompleteRow(sRows[i])
    /\ Cardinality({i \in DOMAIN sTargets : HasSameSlugPost(sTargets[i])}) = 1

----------------------------------------------------------------------------
(* Confirmation gates of the script entry points                            *)

\* What a script does with its flags: whether it exits before its first
\* request, and the kinds of write requests its code paths can send.

\* complete-migration.mjs: reads no flag; main() is called at module level
completeMigration(args) ==
    [refuses |-> FALSE, writes |-> {"createTag", "createPost", "updatePost", "updateAcf"}]

\* upload-media-to-wp.mjs: reads no flag
uploadMediaToWp(args) == [refuses |-> FALSE, writes |-> {"uploadMedia"}]

\* migrate-to-wp.mjs: reads no flag
migrateToWp(args) == [refuses |-> FALSE, writes |-> {"createPost"}]

\* cleanup-duplicates.mjs: if (!confirmed) process.exit(1)
cleanupDuplicates(args) == [refuses |-> ~args.yes, writes |-> {"deletePost"}]

\* reset-cpts.mjs: if (!confirmed) process.exit(1)
resetCpts(args) == [refuses |-> ~args.yes, writes |-> {"deletePost"}]

\* sync-external-media-to-wp.mjs: exits without --yes; --dry-run skips the
\* upload and the update
syncExternalMediaToWp(args) ==
    [refuses |-> ~args.yes,
     writes |-> IF args.dryRun THEN {} ELSE {"uploadMedia", "updatePost"}]

\* cleanup-wp-css-leaks.mjs: exits without --yes; --dry-run exits before the update
cleanupWpCssLeaks(args) ==
    [refuses |-> ~args.yes, writes |-> IF args.dryRun THEN {} ELSE {"updatePost"}]

\* backfill-acf-media.mjs: if (!confirmed) process.exit(1)
backfillAcfMedia(args) == [refuses |-> ~args.yes, writes |-> {"updateAcf"}]

\* sync_wp_insights_from_csv.mjs: if (!isYes) process.exit(1); isDryRun
\* guards every write
syncWpInsightsFromCsv(args) ==
    [refuses |-> ~args.yes,
     writes |-> IF args.dryRun THEN {}
                ELSE {"createTag", "uploadMedia", "createPost", "updatePost"}]

\* reapply-insight-tags.mjs: isYes guards updateInsightTags only; ensureWPTags
\* POSTs the missing tags before the guard is reached
reapplyInsightTags(args) ==
    [refuses |-> FALSE,
     writes |-> {"createTag"} \cup (IF args.yes THEN {"updatePost"} ELSE {})]

\* the Strapi -> WordPress cover / gallery sync: isYes guards updateWorkAcf
syncWorkMedia(args) ==
    [refuses |-> FALSE, writes |-> IF args.yes THEN {"updateAcf"} ELSE {}]

\* migration/src/index.ts: no confirmation flag; the uploaders take their
\* dry-run branch when DRY_RUN was 'true' in the environment at load time
csvMigrationCli(args) ==
    [refuses |-> FALSE,
     writes |-> IF args.envDryRun THEN {}
                ELSE {"uploadMedia", "createEntry", "publishEntry"}]

GateScripts ==
    {"complete-migration", "upload-media-to-wp", "migrate-to-wp", "cleanup-duplicates",
     "reset-cpts", "sync-external-media-to-wp", "cleanup-wp-css-leaks",
     "backfill-acf-media", "sync_wp_insights_from_csv", "reapply-insight-tags",
     "sync-work-media", "csv-migration-cli"}

ScriptEntry(script, args) ==
    CASE script = "complete-migration" -> completeMigration(args)
      [] script = "upload-media-to-wp" -> uploadMediaToWp(args)
      [] script = "migrate-to-wp" -> migrateToWp(args)
      [] script = "cleanup-duplicates" -> cleanupDuplicates(args)
      [] script = "reset-cpts" -> resetCpts(args)
      [] script = "sync-external-media-to-wp" -> syncExternalMediaToWp(args)
      [] script = "cleanup-wp-css-leaks" -> cleanupWpCssLeaks(args)
      [] script = "backfill-acf-media" -> backfillAcfMedia(args)
      [] script = "sync_wp_insights_from_csv" -> syncWpInsightsFromCsv(args)
      [] script = "reapply-insight-tags" -> reapplyInsightTags(args)
      [] script = "sync-work-media" -> syncWorkMedia(args)
      [] script = "csv-migration-cli" -> csvMigrationCli(args)

GateInit ==
    /\ gScript \in GateScripts
    /\ gArgs \in [yes : BOOLEAN, dryRun : BOOLEAN, envDryRun : BOOLEAN]
    /\ gPc = "start"
    /\ gWrites = {}
    /\ gExit = -1
    /\ StripIdle
    /\ RetryIdle
    /\ DedupeIdle
    /\ TagsIdle
    /\ CsvIdle
    /\ SyncIdle
    /\ RestIdle

\* the module-level statements of the script: the flags, the gate
GateStart ==
    /\ gPc = "start"
    /\ IF ScriptEntry(gScript, gArgs).refuses
         THEN gPc' = "refused" /\ gExit' = 1
         ELSE gPc' = "running" /\ UNCHANGED gExit
    /\ UNCHANGED <<gScript, gArgs, gWrites, exceptGate>>

\* the script sends a write request of a kind it has not sent yet
GateSendWrite ==
    /\ gPc = "running"
    /\ \E kind \in ScriptEntry(gScript, gArgs).writes \ gWrites :
        gWrites' = gWrites \cup {kind}
    /\ UNCHANGED <<gScript, gArgs, gPc, gExit, exceptGate>>

\* main returns
GateFinish ==
    /\ gPc = "running"
    /\ gPc' = "done"
    /\ gExit' = 0
    /\ UNCHANGED <<gScript, gArgs, gWrites, exceptGate>>

GateNext == GateStart \/ GateSendWrite \/ GateFinish

SpecGate == GateInit /\ [][GateNext]_vars

\* C3 as stated: a script started without --yes sends no write request (it
\* exits before any write or runs as a dry run), for every script entry point.
C3_Original_NoWriteWithoutYes ==
    ~gArgs.yes => gWrites = {}

----------------------------------------------------------------------------
(* normalizeStrapiMedia (complete-migration.mjs, migrate-to-wp.mjs and the  *)
(* cover / gallery sync hold the same text)                                 *)

\* Bound of the media lists
MaxMediaItems == 2

\* JavaScript values: null, a media object (its own properties other than
\* `attributes` as key / value pairs, and its `attributes` object when it has
\* one), an array, an object with an own `data` property
JsNull == [t |-> "null"]

MediaNode(props, hasAttributes, attributes) ==
    [t |-> "node", props |-> props, hasAttributes |-> hasAttributes,
     attributes |-> attributes]

JsArray(items) == [t |-> "array", items |-> items]

DataWrapper(data) == [t |-> "wrapper", data |-> data]

MediaProps == {{<<"id", "1">>}, {<<"id", "2">>, <<"url", "u">>}, {<<"url", "u">>}}

MediaAttributes == {{}, {<<"url", "v">>}, {<<"id", "9">>, <<"url", "v">>}}

MediaNodes ==
    {MediaNode(pr, FALSE, {}) : pr \in MediaProps}
        \cup {MediaNode(pr, TRUE, at) : pr \in MediaProps, at \in MediaAttributes}

HasKey(pairs, key) == \E pr \in pairs : pr[1] = key

\* node.id: undefined when the object has no such property
PropOf(pairs, key) ==
    IF HasKey(pairs, key) THEN (CHOOSE pr \in pairs : pr[1] = key)[2] ELSE "undefined"

\* { id: node.id, ...node.attributes }
SpreadAttributes(node) ==
    {pr \in {<<"id", PropOf(node.props, "id")>>} : ~HasKey(node.attributes, "id")}
        \cup node.attributes

normalizeStrapiMediaNode(node) ==
    IF node = JsNull THEN JsNull
    ELSE IF node.hasAttributes THEN MediaNode(SpreadAttributes(node), FALSE, {})
    ELSE node

\* .filter(Boolean) that keeps every entry
FilterKeepsAll(items) == items

\* .filter(Boolean) over the results of normalizeStrapiMediaNode
filterBoolean(items) ==
    LET Truthy(x) == x # JsNull IN SelectSeq(items, Truthy)

\* value.map(normalizeStrapiMediaNode).filter(Boolean)
NormalizeItems(items) ==
    filterBoolean([i \in DOMAIN items |-> normalizeStrapiMediaNode(items[i])])

normalizeStrapiMedia(value) ==
    IF value = JsNull THEN JsNull
    ELSE IF value.t = "array" THEN JsArray(NormalizeItems(value.items))
    ELSE IF value.t = "wrapper"
      THEN IF value.data = JsNull THEN JsNull
           ELSE IF value.data.t = "array" THEN JsArray(NormalizeItems(value.data.items))
           ELSE normalizeStrapiMediaNode(value.data)
    ELSE normalizeStrapiMediaNode(value)

MediaInit ==
    /\ pIn \in SeqsUpTo(MediaNodes \cup {JsNull}, MaxMediaItems)
    /\ pPc = "media"
    /\ pOut = << >>
    /\ StripIdle
    /\ RetryIdle
    /\ DedupeIdle
    /\ TagsIdle
    /\ CsvIdle
    /\ WpScriptsIdle
    /\ CacheIdle
    /\ ResetIdle
    /\ AuthIdle

\* normalizeStrapiMedia on the four shapes of the same content: the first
\* entry bare and under `data`, the list as an array and under `data`
NormalizeShapes ==
    /\ pPc = "media"
    /\ LET first == IF pIn = << >> THEN JsNull ELSE pIn[1] IN
       pOut' = [bare |-> normalizeStrapiMedia(first),
                wrapped |-> normalizeStrapiMedia(DataWrapper(first)),
                array |-> normalizeStrapiMedia(JsArray(pIn)),
                wrappedArray |-> normalizeStrapiMedia(DataWrapper(JsArray(pIn)))]
    /\ pPc' = "mediaDone"
    /\ UNCHANGED <<pIn, exceptPure>>

MediaNext == NormalizeShapes

SpecMedia == MediaInit /\ [][MediaNext]_vars

\* r is the flattened form of node n: for {id, attributes} exactly the
\* properties of attributes plus id (attributes' own id wins), else n itself
IsFlattened(n, r) ==
    IF n.hasAttributes
      THEN /\ r.t = "node"
           /\ ~r.hasAttributes
           /\ \A pr \in n.attributes : pr \in r.props
           /\ \A pr \in r.props :
                pr \in n.attributes
                    \/ (pr[1] = "id" /\ ~HasKey(n.attributes, "id")
                            /\ pr[2] = PropOf(n.props, "id"))
           /\ HasKey(r.props, "id")
      ELSE r = n

\* positions of the entries of pIn that are not null, in order
RECURSIVE NonNullPositions(_)
NonNullPositions(k) ==
    IF k = 0 THEN << >>
    ELSE IF pIn[k] = JsNull THEN NonNullPositions(k - 1)
    ELSE Append(NonNullPositions(k - 1), k)

\* C11: normalizeStrapiMedia gives the same result for a bare media object
\* and for {data: obj}, the same sequence for an array and for {data: array};
\* every {id, attributes} node is flattened to {id, ...attributes}, null
\* entries are dropped and the other entries keep their order.
C11_ShapesAgree ==
    pPc = "mediaDone" =>
        LET kept == NonNullPositions(Len(pIn)) IN
        /\ pOut.bare = pOut.wrapped
        /\ pOut.array = pOut.wrappedArray
        /\ pOut.array.t = "array"
        /\ Len(pOut.array.items) = Len(kept)
        /\ \A k \in DOMAIN kept : IsFlattened(pIn[kept[k]], pOut.array.items[k])
        /\ (pIn # << >> /\ pIn[1] # JsNull => IsFlattened(pIn[1], pOut.bare))
        /\ (pIn # << >> /\ pIn[1] = JsNull => pOut.bare = JsNull)

C11_Witness ==
    /\ pPc = "mediaDone"
    /\ Len(pIn) = 2
    /\ pIn[1] # JsNull
    /\ pIn[1].hasAttributes
    /\ HasKey(pIn[1].attributes, "url")
    /\ pIn[2] = JsNull
    /\ Len(pOut.array.items) = 1

----------------------------------------------------------------------------
(* parseBoolean (complete-migration.mjs) and parseAcfBoolean (the frontend  *)
(* WordPress client): the same body                                         *)

\* Bound of the number of entries whose `featured` field is parsed
MaxFeatured == 2

\* values carry their type and their printed form
JsBool(b) == [t |-> "boolean", v |-> IF b THEN "true" ELSE "false"]

JsNum(n) == [t |-> "number", v |-> ToString(n)]

JsStr(str) == [t |-> "string", v |-> str]

JsUndefined == [t |-> "undefined"]

FeaturedValues ==
    {JsBool(TRUE), JsBool(FALSE), JsNum(0), JsNum(1), JsNum(2), JsNull, JsUndefined}
        \cup {JsStr(str) : str \in {"", "0", "1", "true", "false", "TRUE", "True",
                                    "FALSE", "False", "yes"}}

\* a === b
StrictEquals(a, b) ==
    /\ a.t = b.t
    /\ a.t \in {"null", "undefined"} \/ a.v = b.v

\* Boolean(value)
ToBoolean(value) ==
    CASE value.t = "boolean" -> value.v = "true"
      [] value.t = "number" -> value.v # "0"
      [] value.t = "string" -> value.v # ""
      [] OTHER -> FALSE

parseBoolean(value) ==
    IF StrictEquals(value, JsBool(TRUE)) THEN TRUE
    ELSE IF StrictEquals(value, JsBool(FALSE)) THEN FALSE
    ELSE IF StrictEquals(value, JsNum(1)) \/ StrictEquals(value, JsStr("1")) THEN TRUE
    ELSE IF StrictEquals(value, JsNum(0)) \/ StrictEquals(value, JsStr("0")) THEN FALSE
    ELSE IF StrictEquals(value, JsStr("true")) THEN TRUE
    ELSE IF StrictEquals(value, JsStr("false")) THEN FALSE
    ELSE IF StrictEquals(value, JsStr("")) \/ StrictEquals(value, JsNull)
                \/ StrictEquals(value, JsUndefined) THEN FALSE
    ELSE ToBoolean(value)

parseAcfBoolean(value) == parseBoolean(value)

BoolInit ==
    /\ pIn \in SeqsUpTo(FeaturedValues, MaxFeatured)
    /\ pPc = "featured"
    /\ pOut = << >>
    /\ StripIdle
    /\ RetryIdle
    /\ DedupeIdle
    /\ TagsIdle
    /\ CsvIdle
    /\ WpScriptsIdle
    /\ CacheIdle
    /\ ResetIdle
    /\ AuthIdle

\* featured: parseBoolean(work.featured) for the next entry of the list
ParseFeatured ==
    /\ pPc = "featured"
    /\ Len(pOut) < Len(pIn)
    /\ pOut' = Append(pOut, [migration |-> parseBoolean(pIn[Len(pOut) + 1]),
                             frontend |-> parseAcfBoolean(pIn[Len(pOut) + 1])])
    /\ UNCHANGED <<pIn, pPc, exceptPure>>

FeaturedDone ==
    /\ pPc = "featured"
    /\ Len(pOut) = Len(pIn)
    /\ pPc' = "featuredDone"
    /\ UNCHANGED <<pIn, pOut, exceptPure>>

BoolNext ==
    \/ ParseFeatured
    \/ FeaturedDone

SpecBool == BoolInit /\ [][BoolNext]_vars

\* the lower-case form of the string inputs
LowerCase(str) ==
    CASE str \in {"TRUE", "True"} -> "true"
      [] str \in {"FALSE", "False"} -> "false"
      [] OTHER -> str

\* C12: both parsers return true for true, 1, 'true', '1' and false for
\* false, 0, 'false', '0', '', null and undefined, the string forms compared
\* without regard to case ('TRUE' gives true, 'FALSE' and 'False' false).
C12_Original_CaseInsensitive ==
    \A k \in DOMAIN pOut :
        LET value == pIn[k]
            folded == IF value.t = "string" THEN JsStr(LowerCase(value.v)) ELSE value
        IN
        /\ folded \in {JsBool(TRUE), JsNum(1), JsStr("true"), JsStr("1")}
              => pOut[k].migration /\ pOut[k].frontend
        /\ folded \in {JsBool(FALSE), JsNum(0), JsStr("false"), JsStr("0"), JsStr(""),
                       JsNull, JsUndefined}
              => ~pOut[k].migration /\ ~pOut[k].frontend

----------------------------------------------------------------------------
(* resolveWpAuthHeaders (the cover / gallery sync script,                   *)
(* reapply-insight-tags.mjs, sync_wp_insights_from_csv.mjs)                 *)

\* Bounds of the password and of the content requests of a run
MaxPasswordLen == 2
MaxContentRequests == 2

PasswordChars == {"a", "b", " "}

AuthScripts == {"syncWorkMedia", "reapplyInsightTags", "syncWpInsightsFromCsv"}

\* WP_APP_PASSWORD_RAW.replace(/\s+/g, '')
StripWhitespace(password) ==
    LET NotSpace(ch) == ch # " " IN SelectSeq(password, NotSpace)

\* Array.from(new Set([raw, stripped])).filter(Boolean)
wpPasswordCandidates(password) ==
    LET both == IF StripWhitespace(password) = password
                  THEN <<password>>
                  ELSE <<password, StripWhitespace(password)>>
        NotEmpty(candidate) == candidate # << >>
    IN  SelectSeq(both, NotEmpty)

AuthInit ==
    /\ aScript \in AuthScripts
    /\ aPassword \in SeqsUpTo(PasswordChars, MaxPasswordLen)
    /\ aAccepted \in SUBSET Range(wpPasswordCandidates(aPassword))
    /\ aPc = "resolve"
    /\ aK = 1
    /\ aCached = << >>
    /\ aRequests = << >>
    /\ aExit = 0
    /\ StripIdle
    /\ RetryIdle
    /\ DedupeIdle
    /\ TagsIdle
    /\ CsvIdle
    /\ WpScriptsIdle
    /\ CacheIdle
    /\ ResetIdle
    /\ PureIdle

\* one iteration of the loop over the candidates: GET /users/me
AuthProbe ==
    /\ aPc = "resolve"
    /\ aK <= Len(wpPasswordCandidates(aPassword))
    /\ LET candidate == wpPasswordCandidates(aPassword)[aK] IN
       /\ aRequests' = Append(aRequests, [path |-> "users/me", password |-> candidate])
       /\ IF candidate \in aAccepted
            THEN /\ aCached' = <<candidate>>
                 /\ aPc' = "content"
                 /\ UNCHANGED aK
            ELSE /\ aK' = aK + 1
                 /\ UNCHANGED <<aCached, aPc>>
    /\ UNCHANGED <<aScript, aPassword, aAccepted, aExit, exceptAuth>>

\* no candidate at all, or the loop ended without an accepted candidate
AuthLoopEnd ==
    /\ aPc = "resolve"
    /\ aK > Len(wpPasswordCandidates(aPassword))
    /\ IF aScript = "syncWorkMedia" /\ wpPasswordCandidates(aPassword) # << >>
         THEN \* cachedWpAuthHeaders = makeWpAuthHeaders(wpPasswordCandidates[0])
              /\ aCached' = <<wpPasswordCandidates(aPassword)[1]>>
              /\ aPc' = "content"
              /\ UNCHANGED aExit
         ELSE \* throw: main rejects (or reports the failed first read) with exitCode 1
              /\ aPc' = "aborted"
              /\ aExit' = 1
              /\ UNCHANGED aCached
    /\ UNCHANGED <<aScript, aPassword, aAccepted, aK, aRequests, exceptAuth>>

\* a read or write of content with the resolved headers
AuthContentRequest ==
    /\ aPc = "content"
    /\ Len(SelectSeq(aRequests, LAMBDA r : r.path = "content")) < MaxContentRequests
    /\ aRequests' = Append(aRequests, [path |-> "content", password |-> aCached[1]])
    /\ UNCHANGED <<aScript, aPassword, aAccepted, aPc, aK, aCached, aExit, exceptAuth>>

AuthFinish ==
    /\ aPc = "content"
    /\ aPc' = "done"
    /\ UNCHANGED <<aScript, aPassword, aAccepted, aK, aCached, aRequests, aExit, exceptAuth>>

AuthNext ==
    \/ AuthProbe
    \/ AuthLoopEnd
    \/ AuthContentRequest
    \/ AuthFinish

SpecAuth == AuthInit /\ [][AuthNext]_vars

\* C18: when /users/me accepts none of the password candidates, the script
\* aborts and never sends a content request with the unverified credentials;
\* every content request carries a password that a probe accepted.
C18_Original_AuthFailureFatal ==
    /\ \A i \in DOMAIN aRequests :
          aRequests[i].path = "content" => aRequests[i].password \in aAccepted
    /\ (aPc = "done" => aAccepted # {})

----------------------------------------------------------------------------
(* normalizeWpRichText (frontend WordPress client)                          *)

\* Bound of the length of the rich text, in tokens
MaxRichLen == 4

\* The text is a sequence of tokens, each standing for the characters it
\* spells; the string is their concatenation.  "**ab**" is bold markdown,
\* "&" followed by "amp;" is the entity &amp;
RichTokens == {"<p>", "</p>", "**ab**", "&", "amp;", "x", " ", "\n"}

IsWhitespace(tok) == tok \in {" ", "\n"}

\* String.prototype.trim
RECURSIVE TrimRich(_)
TrimRich(v) ==
    IF v = << >> THEN v
    ELSE IF IsWhitespace(v[1]) THEN TrimRich(Tail(v))
    ELSE IF IsWhitespace(v[Len(v)]) THEN TrimRich(SubSeq(v, 1, Len(v) - 1))
    ELSE v

\* .replace(/<\s*\/\s*p\s*>/gi, '\n\n').replace(/<\s*p\b[^>]*>/gi, '')
RECURSIVE ParagraphsToText(_)
ParagraphsToText(v) ==
    IF v = << >> THEN v
    ELSE IF v[1] = "</p>" THEN <<"\n", "\n">> \o ParagraphsToText(Tail(v))
    ELSE IF v[1] = "<p>" THEN ParagraphsToText(Tail(v))
    ELSE <<v[1]>> \o ParagraphsToText(Tail(v))

\* .replace(/\n{3,}/g, '\n\n')
RECURSIVE CollapseNewlines(_)
CollapseNewlines(v) ==
    IF Len(v) >= 3 /\ v[1] = "\n" /\ v[2] = "\n" /\ v[3] = "\n"
      THEN CollapseNewlines(Tail(v))
    ELSE IF v = << >> THEN v
    ELSE <<v[1]>> \o CollapseNewlines(Tail(v))

\* .replace(/[ \t]+\n/g, '\n')
RECURSIVE DropSpacesBeforeNewline(_)
DropSpacesBeforeNewline(v) ==
    IF v = << >> THEN v
    ELSE IF v[1] = " " /\ \E k \in 2..Len(v) :
                              /\ v[k] = "\n"
                              /\ \A j \in 2..(k - 1) : v[j] = " "
      THEN DropSpacesBeforeNewline(Tail(v))
    ELSE <<v[1]>> \o DropSpacesBeforeNewline(Tail(v))

\* decodeHtmlEntities: /&(#x?[0-9a-fA-F]+|[a-zA-Z]+);/g, each match replaced
\* once, left to right; &amp; is the only named entity the tokens spell
\* ("&" "x" ... "amp;" matches as an unknown name and is kept)
RECURSIVE decodeHtmlEntities(_)
decodeHtmlEntities(v) ==
    IF Len(v) >= 2 /\ v[1] = "&" /\ v[2] = "amp;"
      THEN <<"&">> \o decodeHtmlEntities(Tail(Tail(v)))
    ELSE IF v = << >> THEN v
    ELSE <<v[1]>> \o decodeHtmlEntities(Tail(v))

\* the empty-paragraph rule of fixedHtml: <p>, whitespace only, </p>
RECURSIVE RemoveEmptyParagraphs(_)
RemoveEmptyParagraphs(v) ==
    IF v = << >> THEN v
    ELSE IF v[1] = "<p>" /\ \E k \in 2..Len(v) :
                                /\ v[k] = "</p>"
                                /\ \A j \in 2..(k - 1) : IsWhitespace(v[j])
      THEN LET k == CHOOSE k \in 2..Len(v) :
                        v[k] = "</p>" /\ \A j \in 2..(k - 1) : IsWhitespace(v[j])
           IN  RemoveEmptyParagraphs(SubSeq(v, k + 1, Len(v)))
    ELSE <<v[1]>> \o RemoveEmptyParagraphs(Tail(v))

\* the result undefined is the empty text
normalizeWpRichText(content) ==
    LET value == TrimRich(content)
        containsHtml == \E k \in DOMAIN value : value[k] = "<p>"
        asTextForMarkdown == TrimRich(CollapseNewlines(ParagraphsToText(value)))
        markdownCandidate ==
            TrimRich(CollapseNewlines(DropSpacesBeforeNewline(
                decodeHtmlEntities(asTextForMarkdown))))
        looksLikeMarkdown == \E k \in DOMAIN markdownCandidate : markdownCandidate[k] = "**ab**"
        normalizedMarkdown == TrimRich(CollapseNewlines(markdownCandidate))
    IN  IF value = << >> THEN << >>
        ELSE IF looksLikeMarkdown THEN normalizedMarkdown
        \* no table header among the tokens: recoverFlatTgTable returns fixedHtml
        ELSE RemoveEmptyParagraphs(value)

RichInit ==
    /\ pIn \in SeqsUpTo(RichTokens, MaxRichLen)
    /\ pPc = "richText"
    /\ pOut = << >>
    /\ StripIdle
    /\ RetryIdle
    /\ DedupeIdle
    /\ TagsIdle
    /\ CsvIdle
    /\ WpScriptsIdle
    /\ CacheIdle
    /\ ResetIdle
    /\ AuthIdle

\* normalizeWpRichText applied to the content
NormalizeOnce ==
    /\ pPc = "richText"
    /\ pOut = << >>
    /\ pOut' = <<normalizeWpRichText(pIn)>>
    /\ UNCHANGED <<pIn, pPc, exceptPure>>

\* normalizeWpRichText applied to its own result
NormalizeAgain ==
    /\ pPc = "richText"
    /\ Len(pOut) = 1
    /\ pOut' = Append(pOut, normalizeWpRichText(pOut[1]))
    /\ pPc' = "richTextDone"
    /\ UNCHANGED <<pIn, exceptPure>>

RichNext ==
    \/ NormalizeOnce
    \/ NormalizeAgain

SpecRich == RichInit /\ [][RichNext]_vars

\* C19: the rich-text sanitizers are idempotent; for normalizeWpRichText,
\* applying it to its own result gives that result again.
C19_Original_Idempotent ==
    pPc = "richTextDone" => pOut[2] = pOut[1]

----------------------------------------------------------------------------
(* recoverFlatTgTable (frontend WordPress client)                           *)

\* Bound of the number of paragraphs after the four header paragraphs
MaxTrailing == 5

\* The html is a sequence of blocks: paragraphs <p>text</p> and, in results,
\* tables.  The texts have no newline, no "|", no "#" and nothing to escape:
\* splitRowTokens returns null and formatCellHtml returns the text.
Paragraph(text) == [t |-> "p", text |-> text]

Table(header, rows) == [t |-> "table", header |-> header, rows |-> rows]

headerConfigs ==
    << <<"variable", "category", "subcategory", "details">>,
       <<"key metrics", "category", "details">> >>

TgHeader == <<"Variable", "Category", "Subcategory", "Details">>

CellTexts == {"a", "b", ""}

normalizeHeaderText(text) ==
    CASE text = "Variable" -> "variable"
      [] text = "Category" -> "category"
      [] text = "Subcategory" -> "subcategory"
      [] text = "Details" -> "details"
      [] OTHER -> text

\* the paragraphs from the j-th on continue the header cfg from its k-th
\* word, blank paragraphs skipped
RECURSIVE HeaderFollows(_, _, _, _)
HeaderFollows(texts, j, cfg, k) ==
    IF k > Len(cfg) THEN TRUE
    ELSE IF j > Len(texts) THEN FALSE
    ELSE IF texts[j] = "" THEN HeaderFollows(texts, j + 1, cfg, k)
    ELSE IF normalizeHeaderText(texts[j]) # cfg[k] THEN FALSE
    ELSE HeaderFollows(texts, j + 1, cfg, k + 1)

\* the header configuration that starts at paragraph i (0: none)
HeaderConfigAt(texts, i) ==
    IF texts[i] = "" THEN 0
    ELSE IF \E c \in DOMAIN headerConfigs :
                 /\ normalizeHeaderText(texts[i]) = headerConfigs[c][1]
                 /\ HeaderFollows(texts, i + 1, headerConfigs[c], 2)
      THEN CHOOSE c \in DOMAIN headerConfigs :
                 /\ normalizeHeaderText(texts[i]) = headerConfigs[c][1]
                 /\ HeaderFollows(texts, i + 1, headerConfigs[c], 2)
    ELSE 0

\* the loop that collects the cells, from paragraph i of the matches on
RECURSIVE CollectCells(_, _, _, _, _, _)
CollectCells(blocks, matches, i, columns, blankStreak, acc) ==
    IF i > Len(matches) THEN acc
    ELSE IF matches[i] # acc.lastBlock + 1 THEN acc   \* text between: break
    ELSE IF blocks[matches[i]].text = ""
      THEN IF blankStreak + 1 >= 2 /\ Len(acc.cells) >= columns * 2 THEN acc
           ELSE CollectCells(blocks, matches, i + 1, columns, blankStreak + 1,
                             [acc EXCEPT !.lastBlock = matches[i], !.endIndex = i])
    ELSE CollectCells(blocks, matches, i + 1, columns, 0,
                      [cells |-> Append(acc.cells, blocks[matches[i]].text),
                       lastBlock |-> matches[i], endIndex |-> i])

recoverOnce(blocks) ==
    LET IsParagraph(b) == blocks[b].t = "p"
        matches == SelectSeq([b \in DOMAIN blocks |-> b], IsParagraph)
        texts == [i \in DOMAIN matches |-> blocks[matches[i]].text]
        found == {i \in DOMAIN matches : HeaderConfigAt(texts, i) # 0}
        unchanged == [changed |-> FALSE, html |-> blocks]
    IN  IF Len(matches) < 6 \/ found = {} THEN unchanged
        ELSE
          LET headerIndex == CHOOSE i \in found : \A j \in found : i <= j
              expectedHeader == headerConfigs[HeaderConfigAt(texts, headerIndex)]
              columns == Len(expectedHeader)
              got == CollectCells(blocks, matches, headerIndex, columns, 0,
                                  [cells |-> << >>, lastBlock |-> matches[headerIndex] - 1,
                                   endIndex |-> headerIndex - 1])
              cells == got.cells
              rows == SubSeq(cells, columns + 1, Len(cells))
              rowCount == Len(rows) \div columns
              end == matches[IF got.endIndex > headerIndex THEN got.endIndex ELSE headerIndex]
          IN  IF Len(cells) < columns * 2 THEN unchanged
              ELSE IF \E k \in 1..columns : normalizeHeaderText(cells[k]) # expectedHeader[k]
                THEN unchanged
              ELSE IF rowCount < 1 THEN unchanged
              ELSE [changed |-> TRUE,
                    html |-> SubSeq(blocks, 1, matches[headerIndex] - 1)
                               \o <<Table(SubSeq(cells, 1, columns),
                                          [r \in 1..rowCount |->
                                              SubSeq(rows, (r - 1) * columns + 1, r * columns)])>>
                               \o SubSeq(blocks, end + 1, Len(blocks))]

\* for (let i = 0; i < 5; i++) recoverOnce, until nothing changes
RECURSIVE RecoverLoop(_, _)
RecoverLoop(current, i) ==
    IF i >= 5 \/ ~recoverOnce(current).changed THEN current
    ELSE RecoverLoop(recoverOnce(current).html, i + 1)

recoverFlatTgTable(html) == RecoverLoop(html, 0)

\* the four header paragraphs followed by the paragraphs of pIn
TgInput == [k \in 1..(4 + Len(pIn)) |->
               Paragraph(IF k <= 4 THEN TgHeader[k] ELSE pIn[k - 4])]

TableInit ==
    /\ pIn \in SeqsUpTo(CellTexts, MaxTrailing)
    /\ pPc = "tgTable"
    /\ pOut = << >>
    /\ StripIdle
    /\ RetryIdle
    /\ DedupeIdle
    /\ TagsIdle
    /\ CsvIdle
    /\ WpScriptsIdle
    /\ CacheIdle
    /\ ResetIdle
    /\ AuthIdle

RecoverTable ==
    /\ pPc = "tgTable"
    /\ pOut' = recoverFlatTgTable(TgInput)
    /\ pPc' = "tgTableDone"
    /\ UNCHANGED <<pIn, exceptPure>>

TableNext == RecoverTable

SpecTable == TableInit /\ [][TableNext]_vars

\* C20: after the 4 header paragraphs, K non-blank paragraphs with K = 4N,
\* N >= 1, give exactly one table with the 4 header cells and N rows of 4
\* cells in input order; when K is not a multiple of 4 the output equals
\* the input and no table is emitted.
C20_Original_TableOnlyForFullRows ==
    pPc = "tgTableDone" /\ (\A k \in DOMAIN pIn : pIn[k] # "") =>
        IF Len(pIn) >= 4 /\ Len(pIn) % 4 = 0
          THEN pOut = <<Table(TgHeader,
                              [r \in 1..(Len(pIn) \div 4) |->
                                  SubSeq(pIn, (r - 1) * 4 + 1, r * 4)])>>
          ELSE pOut = TgInput

----------------------------------------------------------------------------
(* reset-cpts.mjs: deleteAll(postType) and deletePost                       *)

\* Bounds of the number of posts of the type and of the delete requests that
\* fail in one run
MaxResetPosts == 101
MaxDeleteFailures == 1

perPage == 100

\* GET /wp/v2/<postType>?per_page=100&page=<page>: the posts at positions
\* (page - 1) * perPage + 1 .. page * perPage of the current list
FetchPage(list, page) ==
    SubSeq(list, (page - 1) * perPage + 1,
           IF page * perPage < Len(list) THEN page * perPage ELSE Len(list))

\* DELETE /wp/v2/<postType>/<id>?force=true that succeeds
RemovePost(list, id) ==
    LET Other(x) == x # id IN SelectSeq(list, Other)

ResetInit ==
    /\ dInitial \in 0..MaxResetPosts
    /\ dPosts = [k \in 1..dInitial |-> k]
    /\ dPc = "fetch"
    /\ dPage = 1
    /\ dBatch = << >>
    /\ dTotalDeleted = 0
    /\ dFailures = 0
    /\ StripIdle
    /\ RetryIdle
    /\ DedupeIdle
    /\ TagsIdle
    /\ CsvIdle
    /\ WpScriptsIdle
    /\ CacheIdle
    /\ PureIdle
    /\ AuthIdle

\* the head of the while loop: the fetch of the page; a page past the end
\* answers 400 or an empty list (break), a failed fetch returns
ResetFetch ==
    /\ dPc = "fetch"
    /\ \E ok \in BOOLEAN :
        IF ~ok
          THEN /\ dPc' = "failed"
               /\ dFailures' = dFailures + 1
               /\ UNCHANGED dBatch
        ELSE IF FetchPage(dPosts, dPage) = << >>
          THEN /\ dPc' = "done"
               /\ UNCHANGED <<dBatch, dFailures>>
        ELSE /\ dBatch' = FetchPage(dPosts, dPage)
             /\ dPc' = "delete"
             /\ UNCHANGED dFailures
    /\ UNCHANGED <<dInitial, dPosts, dPage, dTotalDeleted, exceptReset>>

\* one iteration of for (const post of posts); after the last one, page++
ResetDeletePost ==
    /\ dPc = "delete"
    /\ dBatch # << >>
    /\ \E deleted \in BOOLEAN :
        /\ ~deleted => dFailures < MaxDeleteFailures
        /\ dPosts' = IF deleted THEN RemovePost(dPosts, Head(dBatch)) ELSE dPosts
        /\ dTotalDeleted' = IF deleted THEN dTotalDeleted + 1 ELSE dTotalDeleted
        /\ dFailures' = IF deleted THEN dFailures ELSE dFailures + 1
    /\ dBatch' = Tail(dBatch)
    /\ IF Tail(dBatch) = << >>
         THEN dPc' = "fetch" /\ dPage' = dPage + 1
         ELSE UNCHANGED <<dPc, dPage>>
    /\ UNCHANGED <<dInitial, exceptReset>>

ResetNext ==
    \/ ResetFetch
    \/ ResetDeletePost

SpecReset == ResetInit /\ [][ResetNext]_vars

\* C21: when deleteAll returns and every fetch and every delete request
\* succeeded, no post of the type remains and the reported number of
\* deleted posts is the initial number of posts.
C21_Original_DeletesEveryPost ==
    dPc = "done" /\ dFailures = 0 =>
        /\ dPosts = << >>
        /\ dTotalDeleted = dInitial

----------------------------------------------------------------------------
(* transformContentUrls and isMediaUrl (frontend WordPress client)          *)

\* Bound of the length of the content, in tokens
MaxContentLen == 4

\* length of the text after a match that is handed to isMediaUrl
afterMatchLen == 100

\* The content is a sequence of tokens, each standing for the characters it
\* spells: "WP_URL" is the admin origin, "SITE_URL" the public one
UrlTokens == {"WP_URL", "/about", "/wp-content/uploads/", ".jpg", " ", "x"}

\* number of characters of a token (WP_URL: https://admin.ahmadkarmi.com)
TokenLen(tok) ==
    CASE tok = "WP_URL" -> 28
      [] tok = "/about" -> 6
      [] tok = "/wp-content/uploads/" -> 20
      [] tok = ".jpg" -> 4
      [] OTHER -> 1

\* fullString.slice(offset + match.length, offset + match.length + 100): the
\* tokens that lie wholly inside the slice (no part of a token holds a pattern)
RECURSIVE SliceChars(_, _)
SliceChars(rest, n) ==
    IF rest = << >> \/ TokenLen(rest[1]) > n THEN << >>
    ELSE <<rest[1]>> \o SliceChars(Tail(rest), n - TokenLen(rest[1]))

\* mediaPatterns.some(pattern => lower.includes(pattern))
isMediaUrl(url) ==
    \E k \in DOMAIN url : url[k] \in {"/wp-content/uploads/", ".jpg"}

transformContentUrls(content) ==
    [k \in DOMAIN content |->
        IF content[k] = "WP_URL"
             /\ ~isMediaUrl(SliceChars(SubSeq(content, k + 1, Len(content)), afterMatchLen))
          THEN "SITE_URL"
          ELSE content[k]]

UrlsInit ==
    /\ pIn \in SeqsUpTo(UrlTokens, MaxContentLen)
    /\ pPc = "urls"
    /\ pOut = << >>
    /\ StripIdle
    /\ RetryIdle
    /\ DedupeIdle
    /\ TagsIdle
    /\ CsvIdle
    /\ WpScriptsIdle
    /\ CacheIdle
    /\ AuthIdle
    /\ ResetIdle

TransformContent ==
    /\ pPc = "urls"
    /\ pOut' = transformContentUrls(pIn)
    /\ pPc' = "urlsDone"
    /\ UNCHANGED <<pIn, exceptPure>>

UrlsNext == TransformContent

SpecUrls == UrlsInit /\ [][UrlsNext]_vars

\* the URL that starts at position k: up to the next blank
RECURSIVE UrlFrom(_, _)
UrlFrom(content, k) ==
    IF k > Len(content) \/ content[k] = " " THEN << >>
    ELSE <<content[k]>> \o UrlFrom(content, k + 1)

\* C22: every occurrence of the admin origin that starts a non-media URL is
\* replaced by the public origin and every occurrence that starts a media
\* URL (upload path or media extension in that URL) is kept; text after the
\* URL has no part in the decision.
C22_Original_DecidedByOwnUrl ==
    pPc = "urlsDone" =>
        \A k \in DOMAIN pIn :
            pIn[k] = "WP_URL" =>
                pOut[k] = IF isMediaUrl(UrlFrom(pIn, k + 1)) THEN "WP_URL" ELSE "SITE_URL"

----------------------------------------------------------------------------
(* Media matching by filename: findMatchingImage (complete-migration.mjs), *)
(* searchMediaByFilename (cover / gallery sync) and                         *)
(* findExistingMediaIdByFilename (sync_wp_insights_from_csv.mjs)            *)

\* Bounds of the filenames and of the media list
MaxNameLen == 3
MaxMatchMedia == 2
NameChars == {"a", "A", "."}

\* String.prototype.toLowerCase on the characters of a filename
NameToLowerCase(s) == [i \in DOMAIN s |-> IF s[i] = "A" THEN "a" ELSE s[i]]

\* url.split('/').pop(): the characters after the last '/'
LastSegment(url) ==
    LET slashes == {i \in DOMAIN url : url[i] = "/"}
        from == IF slashes = {} THEN 1
                ELSE (CHOOSE i \in slashes : \A j \in slashes : j <= i) + 1
    IN  SubSeq(url, from, Len(url))

\* name.replace(/\.[^.]+$/, ''): the last '.' and what follows it are removed
\* when at least one character follows it
ReplaceExtension(name) ==
    LET dots == {i \in DOMAIN name : name[i] = "."}
        last == IF dots = {} THEN 0 ELSE CHOOSE i \in dots : \A j \in dots : j <= i
    IN  IF last = 0 \/ last = Len(name) THEN name ELSE SubSeq(name, 1, last - 1)

\* String.prototype.includes
Includes(hay, needle) ==
    \E i \in 1..(Len(hay) + 1) :
        /\ i + Len(needle) - 1 <= Len(hay)
        /\ SubSeq(hay, i, i + Len(needle) - 1) = needle

\* String.prototype.endsWith
EndsWith(str, suffix) ==
    /\ Len(suffix) <= Len(str)
    /\ SubSeq(str, Len(str) - Len(suffix) + 1, Len(str)) = suffix

\* the first index at or after k whose item satisfies Hit, 0 when there is none
FirstIndex(n, Hit(_)) ==
    IF \E i \in 1..n : Hit(i) THEN CHOOSE i \in 1..n : Hit(i) /\ \A j \in 1..(i - 1) : ~Hit(j)
    ELSE 0

\* findMatchingImage(strapiImage, wpMedia): the id of the first item that
\* matches directly or partially (0: null)
findMatchingImage(url, wpMedia) ==
    LET strapiFilename == NameToLowerCase(LastSegment(url))
        wpFilename(i) == NameToLowerCase(LastSegment(wpMedia[i].source_url))
        Hit(i) == /\ wpFilename(i) # << >>
                  /\ \/ wpFilename(i) = strapiFilename
                     \/ Includes(wpFilename(i), ReplaceExtension(strapiFilename))
                     \/ Includes(strapiFilename, ReplaceExtension(wpFilename(i)))
        k == FirstIndex(Len(wpMedia), Hit)
    IN  IF url = << >> \/ k = 0 THEN 0 ELSE wpMedia[k].id

\* the `exact` of both search functions: the first result whose source_url
\* ends with '/' + filename, compared in lower case
ExactResult(filename, results) ==
    LET Hit(i) == EndsWith(NameToLowerCase(results[i].source_url),
                           <<"/">> \o NameToLowerCase(filename))
    IN  FirstIndex(Len(results), Hit)

\* searchMediaByFilename(filename) over the results of the search request
searchMediaByFilename(filename, results) ==
    LET exact == ExactResult(filename, results)
    IN  IF exact # 0 THEN results[exact].id
        ELSE IF results # << >> THEN results[1].id
        ELSE 0

\* findExistingMediaIdByFilename(filename) over the results of the search
\* request: null without request when the name or its token is empty
findExistingMediaIdByFilename(filename, results) ==
    LET exact == ExactResult(filename, results)
    IN  IF filename = << >> \/ ReplaceExtension(filename) = << >> THEN 0
        ELSE IF results = << >> THEN 0
        ELSE IF exact # 0 THEN results[exact].id
        ELSE results[1].id

\* the filenames, and the media lists of WordPress: ids in list order, every
\* source_url a path that ends in a filename
MatchNames == SeqsUpTo(NameChars, MaxNameLen) \ {<< >>}

MatchMediaLists ==
    {[i \in DOMAIN names |-> [id |-> i, source_url |-> <<"/">> \o names[i]]] :
        names \in SeqsUpTo(MatchNames, MaxMatchMedia)}

MatchInit ==
    /\ pIn \in [name : MatchNames, wpMedia : MatchMediaLists]
    /\ pPc = "match"
    /\ pOut = << >>
    /\ StripIdle
    /\ RetryIdle
    /\ DedupeIdle
    /\ TagsIdle
    /\ CsvIdle
    /\ WpScriptsIdle
    /\ CacheIdle
    /\ AuthIdle
    /\ ResetIdle

\* the three lookups of one source filename in one media list
MatchMedia ==
    /\ pPc = "match"
    /\ pOut' = [find |-> findMatchingImage(<<"/">> \o pIn.name, pIn.wpMedia),
                search |-> searchMediaByFilename(pIn.name, pIn.wpMedia),
                existing |-> findExistingMediaIdByFilename(pIn.name, pIn.wpMedia)]
    /\ pPc' = "matchDone"
    /\ UNCHANGED <<pIn, exceptPure>>

MatchNext == MatchMedia

SpecMatch == MatchInit /\ [][MatchNext]_vars

\* the ids of the items whose filename equals the source filename
ExactIds ==
    {pIn.wpMedia[i].id : i \in {j \in DOMAIN pIn.wpMedia :
        NameToLowerCase(LastSegment(pIn.wpMedia[j].source_url)) = NameToLowerCase(pIn.name)}}

\* C26: whenever the media list holds an item whose filename equals the source
\* filename, findMatchingImage, searchMediaByFilename and
\* findExistingMediaIdByFilename return the id of such an item, whatever the
\* order of the list.
C26_Original_ExactPreferred ==
    (pPc = "matchDone" /\ ExactIds # {}) =>
        /\ pOut.find \in ExactIds
        /\ pOut.search \in ExactIds
        /\ pOut.existing \in ExactIds

----------------------------------------------------------------------------
(* withRequestCache (frontend WordPress client): the request cache and the  *)
(* loads in flight.  A call runs to its end without an await, so it is one  *)
(* step; the handlers attached to the loader's promise run as a later step. *)

\* Bounds of the runs
MaxCalls == 3
MaxCacheLoads == 2
MaxNow == 1

RequestKeys == {"k1", "k2"}
TtlChoices == {0, 1}

\* the values a loader resolves with: undefined, or a value of its own
Undefined == [kind |-> "undefined", v |-> 0]
ValueOfLoad(l) == [kind |-> "value", v |-> l]

NoEntry == [present |-> FALSE, value |-> Undefined, expiresAt |-> 0]

\* getCachedValue(key): the value (undefined on a miss) and the cache
\* afterwards, an expired entry being deleted
getCachedValue(cache, key, now) ==
    LET entry == cache[key] IN
    IF ~entry.present THEN [value |-> Undefined, cache |-> cache]
    ELSE IF now > entry.expiresAt
      THEN [value |-> Undefined, cache |-> [cache EXCEPT ![key] = NoEntry]]
    ELSE [value |-> entry.value, cache |-> cache]

\* a call that never looks at the loads in flight
InFlightIgnored(inFlight, key) == 0

\* requestInFlight.get(key)
InFlightFor(inFlight, key) == inFlight[key]

\* a rejection that leaves the in-flight entry in place
RejectKeepsInFlight(inFlight, key) == inFlight

\* the .catch handler: requestInFlight.delete(key)
AfterReject(inFlight, key) == [inFlight EXCEPT ![key] = 0]

CacheInit ==
    /\ qNow = 0
    /\ qCache = [k \in RequestKeys |-> NoEntry]
    /\ qInFlight = [k \in RequestKeys |-> 0]
    /\ qLoads = << >>
    /\ qCalls = << >>
    /\ StripIdle
    /\ RetryIdle
    /\ DedupeIdle
    /\ TagsIdle
    /\ CsvIdle
    /\ WpScriptsIdle
    /\ PureIdle
    /\ AuthIdle
    /\ ResetIdle

\* withRequestCache(key, ttlMs, loader): the cached value, or the promise in
\* flight, or the promise of a new invocation of the loader
CacheCall ==
    /\ Len(qCalls) < MaxCalls
    /\ \E key \in RequestKeys, ttlMs \in TtlChoices :
        LET got == getCachedValue(qCache, key, qNow)
            inFlight == InFlightFor(qInFlight, key)
            new == Len(qLoads) + 1
        IN
        /\ qCache' = got.cache
        /\ IF got.value # Undefined
             THEN /\ qCalls' = Append(qCalls, [key |-> key, load |-> 0, cached |-> got.value])
                  /\ UNCHANGED <<qInFlight, qLoads>>
           ELSE IF inFlight # 0
             THEN /\ qCalls' = Append(qCalls, [key |-> key, load |-> inFlight,
                                               cached |-> Undefined])
                  /\ UNCHANGED <<qInFlight, qLoads>>
           ELSE /\ Len(qLoads) < MaxCacheLoads
                /\ qLoads' = Append(qLoads, [key |-> key, ttlMs |-> ttlMs,
                                             state |-> "pending", value |-> Undefined])
                /\ qInFlight' = [qInFlight EXCEPT ![key] = new]
                /\ qCalls' = Append(qCalls, [key |-> key, load |-> new,
                                             cached |-> Undefined])
    /\ UNCHANGED <<qNow, exceptCache>>

\* the loader's promise settles and the handler attached to it runs
CacheSettle ==
    /\ \E l \in DOMAIN qLoads, outcome \in {"value", "undefined", "error"} :
        LET load == qLoads[l]
            value == IF outcome = "value" THEN ValueOfLoad(l) ELSE Undefined
        IN
        /\ load.state = "pending"
        /\ IF outcome = "error"
             THEN /\ qInFlight' = AfterReject(qInFlight, load.key)
                  /\ qLoads' = [qLoads EXCEPT ![l].state = "rejected"]
                  /\ UNCHANGED qCache
             ELSE /\ qCache' = [qCache EXCEPT ![load.key] =
                                   [present |-> TRUE, value |-> value,
                                    expiresAt |-> qNow + load.ttlMs]]
                  /\ qInFlight' = [qInFlight EXCEPT ![load.key] = 0]
                  /\ qLoads' = [qLoads EXCEPT ![l].state = "fulfilled", ![l].value = value]
    /\ UNCHANGED <<qNow, qCalls, exceptCache>>

\* time passes
CacheTick ==
    /\ qNow < MaxNow
    /\ qNow' = qNow + 1
    /\ UNCHANGED <<qCache, qInFlight, qLoads, qCalls, exceptCache>>

CacheNext ==
    \/ CacheCall
    \/ CacheSettle
    \/ CacheTick

SpecCache == CacheInit /\ [][CacheNext]_vars

\* the loads of a key whose promise has not settled
PendingLoads(key) ==
    {l \in DOMAIN qLoads : qLoads[l].key = key /\ qLoads[l].state = "pending"}

\* what a call was handed: the cached value, or the settlement of the promise
\* it holds
CallResult(call) ==
    IF call.load = 0 THEN [state |-> "fulfilled", value |-> call.cached]
    ELSE [state |-> qLoads[call.load].state, value |-> qLoads[call.load].value]

\* C27: at most one load per key is in flight at any time, and a call for a
\* key that has a load in flight invokes no loader and is handed the promise
\* of that load.
C27_SingleFlight ==
    /\ [](\A key \in RequestKeys : Cardinality(PendingLoads(key)) <= 1)
    /\ [][\A key \in RequestKeys :
            (Len(qCalls') = Len(qCalls) + 1 /\ qCalls'[Len(qCalls')].key = key
                /\ PendingLoads(key) # {})
            => /\ qLoads' = qLoads
               /\ qCalls'[Len(qCalls')].load \in PendingLoads(key)]_vars

\* three calls for one key during one load, all handed its value
C27_Witness ==
    /\ Len(qLoads) = 1
    /\ qLoads[1].state = "fulfilled"
    /\ Len(qCalls) = 3
    /\ \A i \in 1..3 : qCalls[i].load = 1 /\ CallResult(qCalls[i]).value = ValueOfLoad(1)

\* the last load of a key
LastLoad(key) ==
    LET ls == {l \in DOMAIN qLoads : qLoads[l].key = key}
    IN  IF ls = {} THEN 0 ELSE CHOOSE l \in ls : \A m \in ls : m <= l

\* C28: a failed load is never cached: the in-flight entry of a key names a
\* load that has not settled, a cached value comes from a load that was
\* fulfilled, and after a rejected load the key has neither an in-flight entry
\* nor a cached value, so the next call invokes the loader again.
C28_FailureNotCached ==
    \A key \in RequestKeys :
        /\ qInFlight[key] # 0 =>
              qLoads[qInFlight[key]].state = "pending" /\ qLoads[qInFlight[key]].key = key
        /\ (qCache[key].present /\ qCache[key].value # Undefined) =>
              qLoads[qCache[key].value.v].state = "fulfilled"
        /\ (LastLoad(key) # 0 /\ qLoads[LastLoad(key)].state = "rejected") =>
              /\ qInFlight[key] = 0
              /\ getCachedValue(qCache, key, qNow).value = Undefined

\* a load rejected for its two callers, and the loader invoked again for the
\* next call of the key
C28_Witness ==
    /\ Len(qLoads) = 2
    /\ qLoads[1].state = "rejected"
    /\ qLoads[2].key = qLoads[1].key
    /\ Len(qCalls) = 3
    /\ qCalls[1].load = 1 /\ qCalls[2].load = 1 /\ qCalls[3].load = 2
    /\ CallResult(qCalls[2]).state = "rejected"

----------------------------------------------------------------------------
(* dedupeBySlug on items of any shape: `date` and `id` are read through     *)
(* `as any`, an item may lack either                                        *)

\* Bound of the item lists
MaxItems == 3
ItemSlugs == {<<"a">>, <<"a", "-", "2">>}
ItemDates == {1, 2}
ItemIds == {1, 2, 3}

AnyItems ==
    {[slug |-> s] : s \in ItemSlugs}
      \cup {[slug |-> s, id |-> i] : s \in ItemSlugs, i \in ItemIds}
      \cup {[slug |-> s, date |-> d] : s \in ItemSlugs, d \in ItemDates}
      \cup {[slug |-> s, id |-> i, date |-> d] :
               s \in ItemSlugs, i \in ItemIds, d \in ItemDates}

OrderInit ==
    /\ pIn \in SeqsUpTo(AnyItems, MaxItems)
    /\ pPc = "dedupe"
    /\ pOut = << >>
    /\ StripIdle
    /\ RetryIdle
    /\ DedupeIdle
    /\ TagsIdle
    /\ CsvIdle
    /\ WpScriptsIdle
    /\ AuthIdle
    /\ ResetIdle
    /\ CacheIdle

\* one call of dedupeBySlug
DedupeItems ==
    /\ pPc = "dedupe"
    /\ pOut' = dedupeBySlug(pIn)
    /\ pPc' = "dedupeDone"
    /\ UNCHANGED <<pIn, exceptPure>>

OrderNext == DedupeItems

SpecOrder == OrderInit /\ [][OrderNext]_vars

\* the orders of a list of n items
Orders(n) == {f \in [1..n -> 1..n] : \A i, j \in 1..n : i # j => f[i] # f[j]}

====
